-------------------------- MODULE Messages_proofs ---------------------------
(***************************************************************************)
(* Theorems about Messages: names in the queue are safe, a draft is the    *)
(* message that the caller handed over, and mail fails for a cause only.   *)
(* They hold for any calls, limits and file sizes, and names of any length.*)
(***************************************************************************)
EXTENDS Messages, WellFoundedInduction, SequenceTheorems, TLAPS

-----------------------------------------------------------------------------
(* Least and greatest numbers, and induction over the positions of a list. *)

\* A non-empty set of numbers has a least element.
LEMMA Least ==
  ASSUME NEW S, S \subseteq Nat, S # {}
  PROVE  \E m \in S : \A n \in S : m <= n
  <1> DEFINE R == {ss \in Nat \X Nat : ss[1] < ss[2]}
  <1>1. IsWellFoundedOn(R, Nat)
    BY NatLessThanWellFounded, Zenon DEF OpToRel
  <1> HIDE DEF R
  <1>2. PICK m \in S : \A n \in S : <<n, m>> \notin R
    BY <1>1, WFMin
  <1>3. \A n \in S : ~(n < m)
    BY <1>2 DEF R
  <1> QED BY <1>3

\* A set that holds 0 and the successor of each of its members holds every number.
LEMMA Induction ==
  ASSUME NEW S, 0 \in S, \A n \in Nat : n \in S => n + 1 \in S
  PROVE  Nat \subseteq S
  <1> SUFFICES ASSUME Nat \ S # {} PROVE FALSE
    OBVIOUS
  <1>1. PICK m \in Nat \ S : \A n \in Nat \ S : m <= n
    BY Least
  <1>2. m - 1 \in Nat /\ m - 1 \in S
    BY <1>1
  <1> QED BY <1>1, <1>2

\* A non-empty set of bounded numbers has a greatest element.
LEMMA Greatest ==
  ASSUME NEW top \in Nat, NEW S, S \subseteq 0..top, S # {}
  PROVE  /\ Max(S) \in S /\ \A n \in S : n <= Max(S)
  <1> DEFINE Bounds == {b \in Nat : \A n \in S : n <= b}
  <1>1. PICK b \in Bounds : \A c \in Bounds : b <= c
    <2>1. top \in Bounds
      OBVIOUS
    <2> QED BY <2>1, Least
  <1>2. b \in S
    <2> SUFFICES ASSUME b \notin S PROVE FALSE
      OBVIOUS
    <2>1. PICK n : n \in S
      OBVIOUS
    <2>4. n \in Nat /\ n <= b
      BY <2>1, <1>1
    <2>2. b # 0 /\ \A k \in S : k <= b - 1
      BY <1>1, <2>1, <2>4
    <2>3. b - 1 \in Bounds
      BY <1>1, <2>2
    <2> QED BY <1>1, <2>3
  <1>3. \E x \in S : \A y \in S : x >= y
    BY <1>1, <1>2
  <1> QED BY <1>3 DEF Max

-----------------------------------------------------------------------------
(* Parts of a text.                                                        *)

LEMMA TextIsSeq ==
  ASSUME NEW s \in Text
  PROVE  s \in Seq(Bytes) /\ \A i \in 1..Len(s) : s[i] \in Bytes
  <1>1. s \in Seq(Bytes)
    BY DEF Text
  <1> QED BY <1>1, ElementOfSeq

LEMMA TextType ==
  ASSUME NEW s \in Text
  PROVE  Len(s) \in Nat /\ DOMAIN s = 1..Len(s) /\ (s = <<>> <=> Len(s) = 0)
  BY TextIsSeq, LenProperties, EmptySeq

\* Bytes that may follow each other.
Joint(a, b) == (a = "lead" => b = "cont") /\ (b = "cont" => a \in {"lead", "cont"})

\* No character is longer than the longest one.
ShortCharacters(s) ==
  \A i \in 1..Len(s) :
    i + MaxCharacter - 1 <= Len(s) => \E j \in i..(i + MaxCharacter - 1) : s[j] # "cont"

\* What ValidUtf8 says of the positions of a text.
LEMMA TextByPosition ==
  ASSUME NEW s \in Seq(Bytes)
  PROVE  s \in Text <=> /\ Len(s) # 0 => s[1] # "cont" /\ s[Len(s)] # "lead"
                        /\ \A i \in 1..(Len(s) - 1) : Joint(s[i], s[i + 1])
                        /\ ShortCharacters(s)
  <1>1. Len(s) \in Nat /\ DOMAIN s = 1..Len(s) /\ (s = <<>> <=> Len(s) = 0)
    BY LenProperties, EmptySeq
  <1>2. s \in Text <=>
          /\ \A i \in 1..Len(s) : s[i] = "lead" => i < Len(s) /\ s[i + 1] = "cont"
          /\ \A i \in 1..Len(s) : s[i] = "cont" => i > 1 /\ s[i - 1] \in {"lead", "cont"}
          /\ ShortCharacters(s)
    BY <1>1 DEF Text, ValidUtf8, ShortCharacters
  <1> HIDE DEF Text
  <1>3. Len(s) \in Nat
    BY <1>1
  <1>4. ASSUME s \in Text
        PROVE  /\ Len(s) # 0 => s[1] # "cont" /\ s[Len(s)] # "lead"
               /\ \A i \in 1..(Len(s) - 1) : Joint(s[i], s[i + 1])
    <2>1. Len(s) # 0 => s[1] # "cont" /\ s[Len(s)] # "lead"
      BY <1>2, <1>3, <1>4
    <2>2. ASSUME NEW i \in 1..(Len(s) - 1) PROVE Joint(s[i], s[i + 1])
      <3>1. i \in 1..Len(s) /\ i + 1 \in 1..Len(s) /\ (i + 1) - 1 = i
        BY <1>3
      <3> QED BY <1>2, <1>4, <3>1 DEF Joint
    <2> QED BY <2>1, <2>2
  <1>5. ASSUME /\ Len(s) # 0 => s[1] # "cont" /\ s[Len(s)] # "lead"
               /\ \A i \in 1..(Len(s) - 1) : Joint(s[i], s[i + 1])
               /\ ShortCharacters(s)
        PROVE  s \in Text
    <2>1. ASSUME NEW i \in 1..Len(s), s[i] = "lead" PROVE i < Len(s) /\ s[i + 1] = "cont"
      <3>1. i \in 1..(Len(s) - 1)
        BY <1>3, <1>5, <2>1
      <3> QED BY <1>3, <1>5, <2>1, <3>1 DEF Joint
    <2>2. ASSUME NEW i \in 1..Len(s), s[i] = "cont"
          PROVE  i > 1 /\ s[i - 1] \in {"lead", "cont"}
      <3>1. i > 1 /\ i - 1 \in 1..(Len(s) - 1) /\ (i - 1) + 1 = i
        BY <1>3, <1>5, <2>2
      <3>2. Joint(s[i - 1], s[(i - 1) + 1])
        BY <1>5, <3>1
      <3> QED BY <2>2, <3>1, <3>2 DEF Joint
    <2> QED BY <1>2, <1>5, <2>1, <2>2
  <1> QED BY <1>2, <1>4, <1>5

\* A text begins and ends between characters, and each of them is whole.
LEMMA Whole ==
  ASSUME NEW s \in Text
  PROVE  /\ Len(s) # 0 => s[1] # "cont" /\ s[Len(s)] # "lead"
         /\ \A i \in 1..(Len(s) - 1) : Joint(s[i], s[i + 1])
         /\ ShortCharacters(s)
  BY TextIsSeq, TextByPosition

\* No separator, no illegal character.
Clean(s) == \A i \in 1..Len(s) : s[i] \notin {"/", "?"}

\* A part that begins and ends between characters is a text.
LEMMA Part ==
  ASSUME NEW s \in Text, NEW m \in 1..(Len(s) + 1), NEW n \in 0..Len(s), m <= n + 1,
         m <= n => s[m] # "cont", n < Len(s) => s[n + 1] # "cont"
  PROVE  /\ SubSeq(s, m, n) \in Text /\ Len(SubSeq(s, m, n)) = n - m + 1
         /\ \A i \in 1..(n - m + 1) : SubSeq(s, m, n)[i] = s[m + i - 1]
         /\ Clean(s) => Clean(SubSeq(s, m, n))
  <1> DEFINE p == SubSeq(s, m, n)
  <1>1. Len(s) \in Nat
    BY TextType
  <1>2. m \in Int /\ n \in Int /\ \A i \in m..n : i \in 1..Len(s) /\ s[i] \in Bytes
    BY <1>1, TextIsSeq
  <1>3. /\ p \in Seq(Bytes) /\ Len(p) = n - m + 1
        /\ \A i \in 1..(n - m + 1) : p[i] = s[m + i - 1]
    BY <1>1, <1>2, SubSeqProperties
  <1> HIDE DEF p
  <1>4. \A i \in 1..(Len(s) - 1) : Joint(s[i], s[i + 1])
    BY Whole
  <1>5. Len(s) # 0 => s[Len(s)] # "lead"
    BY Whole
  <1>6. Len(p) # 0 => p[1] # "cont" /\ p[Len(p)] # "lead"
    <2> SUFFICES ASSUME Len(p) # 0 PROVE p[1] # "cont" /\ p[Len(p)] # "lead"
      OBVIOUS
    <2>1. m <= n /\ p[1] = s[m] /\ p[Len(p)] = s[n]
      BY <1>1, <1>3
    <2>2. CASE n = Len(s)
      BY <1>1, <1>5, <2>1, <2>2
    <2>3. CASE n # Len(s)
      <3>1. n \in 1..(Len(s) - 1) /\ s[n + 1] # "cont"
        BY <1>1, <2>1, <2>3
      <3> QED BY <1>4, <2>1, <3>1 DEF Joint
    <2> QED BY <2>2, <2>3
  <1>7. ASSUME NEW i \in 1..(Len(p) - 1) PROVE Joint(p[i], p[i + 1])
    <2>1. /\ p[i] = s[m + i - 1] /\ p[i + 1] = s[(m + i - 1) + 1]
          /\ m + i - 1 \in 1..(Len(s) - 1)
      BY <1>1, <1>3
    <2> QED BY <1>4, <2>1
  <1>10. ShortCharacters(p)
    <2> SUFFICES ASSUME NEW i \in 1..Len(p), i + MaxCharacter - 1 <= Len(p)
                 PROVE  \E j \in i..(i + MaxCharacter - 1) : p[j] # "cont"
      BY DEF ShortCharacters
    <2>1. MaxCharacter \in Nat \ {0} /\ ShortCharacters(s)
      BY Whole, FilenamesAssumption DEF FilenamesAssumption
    <2> DEFINE k == m + i - 1
    <2>2. k \in 1..Len(s) /\ k + MaxCharacter - 1 <= Len(s)
      BY <1>1, <1>3, <2>1
    <2>3. PICK j \in k..(k + MaxCharacter - 1) : s[j] # "cont"
      BY <2>1, <2>2 DEF ShortCharacters
    <2>4. /\ j - m + 1 \in i..(i + MaxCharacter - 1) /\ j - m + 1 \in 1..(n - m + 1)
          /\ m + (j - m + 1) - 1 = j
      BY <1>1, <1>3, <2>1, <2>2
    <2>5. p[j - m + 1] = s[m + (j - m + 1) - 1]
      BY <1>3, <2>4
    <2> QED BY <2>3, <2>4, <2>5
  <1>8. p \in Text
    BY <1>3, <1>6, <1>7, <1>10, TextByPosition
  <1>9. Clean(s) => Clean(p)
    <2>1. \A i \in 1..Len(p) : \E j \in 1..Len(s) : p[i] = s[j]
      <3>1. ASSUME NEW i \in 1..Len(p) PROVE \E j \in 1..Len(s) : p[i] = s[j]
        <4>1. m + i - 1 \in 1..Len(s) /\ p[i] = s[m + i - 1]
          BY <1>1, <1>3
        <4> QED BY <4>1
      <3> QED BY <3>1
    <2> QED BY <2>1 DEF Clean
  <1> QED BY <1>3, <1>8, <1>9 DEF p

\* Two texts make one.
LEMMA Joined ==
  ASSUME NEW a \in Text, NEW b \in Text
  PROVE  /\ a \o b \in Text /\ Len(a \o b) = Len(a) + Len(b)
         /\ \A i \in 1..(Len(a) + Len(b)) :
              (a \o b)[i] = IF i <= Len(a) THEN a[i] ELSE b[i - Len(a)]
         /\ Clean(a) /\ Clean(b) => Clean(a \o b)
  <1> DEFINE c == a \o b
  <1>1. Len(a) \in Nat /\ Len(b) \in Nat
    BY TextType
  <1>2. /\ c \in Seq(Bytes) /\ Len(c) = Len(a) + Len(b)
        /\ \A i \in 1..(Len(a) + Len(b)) : c[i] = IF i <= Len(a) THEN a[i] ELSE b[i - Len(a)]
    BY TextIsSeq, ConcatProperties
  <1> HIDE DEF c
  <1>3. /\ Len(a) # 0 => a[1] # "cont" /\ a[Len(a)] # "lead"
        /\ Len(b) # 0 => b[1] # "cont" /\ b[Len(b)] # "lead"
    BY Whole
  <1>4. ASSUME NEW i \in 1..(Len(c) - 1) PROVE Joint(c[i], c[i + 1])
    <2>1. CASE i < Len(a)
      <3>1. c[i] = a[i] /\ c[i + 1] = a[i + 1] /\ i \in 1..(Len(a) - 1)
        BY <1>1, <1>2, <2>1
      <3> QED BY <3>1, Whole
    <2>2. CASE i = Len(a)
      <3>1. /\ i + 1 - Len(a) = 1 /\ i + 1 \in 1..(Len(a) + Len(b)) /\ ~(i + 1 <= Len(a))
            /\ i \in 1..(Len(a) + Len(b)) /\ Len(a) # 0 /\ Len(b) # 0
        BY <1>1, <1>2, <2>2
      <3>2. c[i] = a[Len(a)] /\ c[i + 1] = b[1]
        BY <1>2, <2>2, <3>1
      <3>3. /\ c[i + 1] # "cont" /\ c[i] # "lead"
        BY <1>3, <3>1, <3>2
      <3> QED BY <3>3 DEF Joint
    <2>3. CASE i > Len(a)
      <3>1. /\ c[i] = b[i - Len(a)] /\ c[i + 1] = b[(i - Len(a)) + 1]
            /\ i - Len(a) \in 1..(Len(b) - 1)
        <4>1. i + 1 - Len(a) = (i - Len(a)) + 1
          BY <1>1
        <4> QED BY <1>1, <1>2, <2>3, <4>1
      <3> QED BY <3>1, Whole
    <2> QED BY <1>1, <2>1, <2>2, <2>3
  <1>5. Len(c) # 0 => c[1] # "cont" /\ c[Len(c)] # "lead"
    <2>1. CASE Len(a) = 0
      <3>1. Len(c) # 0 => c[1] = b[1] /\ c[Len(c)] = b[Len(b)]
        BY <1>1, <1>2, <2>1
      <3> QED BY <1>1, <1>2, <1>3, <2>1, <3>1
    <2>2. CASE Len(a) # 0 /\ Len(b) = 0
      <3>1. c[1] = a[1] /\ c[Len(c)] = a[Len(a)]
        BY <1>1, <1>2, <2>2
      <3> QED BY <1>3, <2>2, <3>1
    <2>3. CASE Len(a) # 0 /\ Len(b) # 0
      <3>1. c[1] = a[1] /\ c[Len(c)] = b[Len(b)]
        BY <1>1, <1>2, <2>3
      <3> QED BY <1>3, <2>3, <3>1
    <2> QED BY <2>1, <2>2, <2>3
  <1>8. ShortCharacters(c)
    <2> SUFFICES ASSUME NEW i \in 1..Len(c), i + MaxCharacter - 1 <= Len(c)
                 PROVE  \E j \in i..(i + MaxCharacter - 1) : c[j] # "cont"
      BY DEF ShortCharacters
    <2>1. MaxCharacter \in Nat \ {0} /\ ShortCharacters(a) /\ ShortCharacters(b)
      BY Whole, FilenamesAssumption DEF FilenamesAssumption
    <2>2. CASE i + MaxCharacter - 1 <= Len(a)
      <3>1. i \in 1..Len(a)
        BY <1>1, <2>1, <2>2
      <3>2. PICK j \in i..(i + MaxCharacter - 1) : a[j] # "cont"
        BY <2>1, <2>2, <3>1 DEF ShortCharacters
      <3>3. j \in 1..(Len(a) + Len(b)) /\ j <= Len(a)
        BY <1>1, <2>1, <2>2, <3>1
      <3>4. c[j] = a[j]
        BY <1>2, <3>3
      <3> QED BY <3>2, <3>4
    <2>3. CASE i > Len(a)
      <3> DEFINE k == i - Len(a)
      <3>1. k \in 1..Len(b) /\ k + MaxCharacter - 1 <= Len(b)
        BY <1>1, <1>2, <2>1, <2>3
      <3>2. PICK j \in k..(k + MaxCharacter - 1) : b[j] # "cont"
        BY <2>1, <3>1 DEF ShortCharacters
      <3>3. /\ Len(a) + j \in 1..(Len(a) + Len(b)) /\ ~(Len(a) + j <= Len(a))
            /\ Len(a) + j - Len(a) = j /\ Len(a) + j \in i..(i + MaxCharacter - 1)
        BY <1>1, <2>1, <3>1
      <3>4. c[Len(a) + j] = b[j]
        BY <1>2, <3>3
      <3> QED BY <3>2, <3>3, <3>4
    <2>4. CASE i <= Len(a) /\ Len(a) + 1 <= i + MaxCharacter - 1
      <3>1. /\ Len(a) + 1 \in 1..(Len(a) + Len(b)) /\ ~(Len(a) + 1 <= Len(a))
            /\ Len(a) + 1 - Len(a) = 1 /\ Len(a) + 1 \in i..(i + MaxCharacter - 1)
            /\ Len(b) # 0
        BY <1>1, <1>2, <2>1, <2>4
      <3>2. c[Len(a) + 1] = b[1]
        BY <1>2, <3>1
      <3> QED BY <1>3, <3>1, <3>2
    <2> QED BY <1>1, <2>1, <2>2, <2>3, <2>4
  <1>6. c \in Text
    BY <1>2, <1>4, <1>5, <1>8, TextByPosition
  <1>7. Clean(a) /\ Clean(b) => Clean(c)
    <2> SUFFICES ASSUME Clean(a), Clean(b), NEW i \in 1..Len(c)
                 PROVE  c[i] \notin {"/", "?"}
      BY DEF Clean
    <2>1. CASE i <= Len(a)
      BY <1>1, <1>2, <2>1 DEF Clean
    <2>2. CASE i > Len(a)
      <3>1. i - Len(a) \in 1..Len(b) /\ c[i] = b[i - Len(a)]
        BY <1>1, <1>2, <2>2
      <3> QED BY <3>1 DEF Clean
    <2> QED BY <1>1, <2>1, <2>2
  <1> QED BY <1>2, <1>6, <1>7 DEF c
-----------------------------------------------------------------------------
(* Names in the queue.                                                     *)

\* The last position of a byte, or 0.
LEMMA LastPosition ==
  ASSUME NEW s \in Text, NEW byte
  PROVE  /\ LastPos(s, byte) \in 0..Len(s)
         /\ LastPos(s, byte) # 0 => s[LastPos(s, byte)] = byte
         /\ \A i \in 1..Len(s) : s[i] = byte => i <= LastPos(s, byte)
  <1> DEFINE I == {i \in 1..Len(s) : s[i] = byte}
  <1>1. LastPos(s, byte) = IF I # {} THEN Max(I) ELSE 0
    BY DEF LastPos, SelectLastInSeq
  <1>2. Len(s) \in Nat
    BY TextType
  <1>3. I \subseteq 0..Len(s)
    BY <1>2
  <1>4. I # {} => Max(I) \in I /\ \A i \in I : i <= Max(I)
    <2> HIDE DEF I
    <2> QED BY <1>2, <1>3, Greatest, Zenon
  <1>5. CASE I = {}
    BY <1>1, <1>2, <1>5
  <1>6. CASE I # {}
    <2>1. LastPos(s, byte) \in I /\ \A i \in I : i <= LastPos(s, byte)
      BY <1>1, <1>4, <1>6
    <2> QED BY <1>2, <2>1
  <1> QED BY <1>5, <1>6

\* The part behind the last separator has none; its bytes begin a character.
LEMMA LeafIsText ==
  ASSUME NEW s \in Text
  PROVE  LET leaf == SubSeq(s, LastPos(s, "/") + 1, Len(s))
         IN  leaf \in Text /\ \A i \in 1..Len(leaf) : leaf[i] # "/"
  <1> DEFINE slash == LastPos(s, "/")
             leaf == SubSeq(s, slash + 1, Len(s))
  <1>1. /\ Len(s) \in Nat /\ slash \in 0..Len(s)
        /\ slash # 0 => s[slash] = "/"
        /\ \A i \in 1..Len(s) : s[i] = "/" => i <= slash
    BY TextType, LastPosition
  <1> HIDE DEF slash
  <1>2. slash + 1 <= Len(s) => s[slash + 1] # "cont"
    <2>1. CASE slash = 0
      BY <1>1, <2>1, Whole
    <2>2. CASE slash # 0 /\ slash + 1 <= Len(s)
      <3>1. slash \in 1..(Len(s) - 1) /\ s[slash] = "/"
        BY <1>1, <2>2
      <3>2. Joint(s[slash], s[slash + 1])
        BY <3>1, Whole
      <3> QED BY <3>1, <3>2 DEF Joint
    <2> QED BY <2>1, <2>2
  <1>3. /\ slash + 1 \in 1..(Len(s) + 1) /\ Len(s) \in 0..Len(s)
        /\ slash + 1 <= Len(s) + 1 /\ ~(Len(s) < Len(s))
    BY <1>1
  <1>4. /\ leaf \in Text /\ Len(leaf) = Len(s) - (slash + 1) + 1
        /\ \A i \in 1..(Len(s) - (slash + 1) + 1) : leaf[i] = s[slash + 1 + i - 1]
    BY <1>2, <1>3, Part
  <1> HIDE DEF leaf
  <1>5. ASSUME NEW i \in 1..Len(leaf) PROVE leaf[i] # "/"
    <2>1. /\ slash + 1 + i - 1 \in 1..Len(s) /\ slash + 1 + i - 1 > slash
          /\ leaf[i] = s[slash + 1 + i - 1]
      BY <1>1, <1>4
    <2> QED BY <1>1, <2>1
  <1> QED BY <1>4, <1>5 DEF leaf, slash

\* A path names a text, with or without separators.
LEMMA FromPathIsText ==
  ASSUME NEW s \in Text
  PROVE  FilenameFromPath(s) \in Text
  BY LeafIsText DEF FilenameFromPath

\* Illegal characters become ordinary ones, one by one.
LEMMA SafeIsText ==
  ASSUME NEW leaf \in Text, \A i \in 1..Len(leaf) : leaf[i] # "/"
  PROVE  LET safe == [i \in DOMAIN leaf |-> IF leaf[i] = "?" THEN "x" ELSE leaf[i]]
         IN  safe \in Text /\ Clean(safe)
  <1> DEFINE safe == [i \in DOMAIN leaf |-> IF leaf[i] = "?" THEN "x" ELSE leaf[i]]
  <1>1. /\ Len(leaf) \in Nat /\ DOMAIN leaf = 1..Len(leaf)
        /\ \A i \in 1..Len(leaf) : leaf[i] \in Bytes
    BY TextType, TextIsSeq
  <1>2. \A i \in 1..Len(leaf) :
          /\ safe[i] \in Bytes /\ safe[i] \notin {"/", "?"}
          /\ safe[i] = "lead" <=> leaf[i] = "lead"
          /\ safe[i] = "cont" <=> leaf[i] = "cont"
    BY <1>1 DEF Bytes
  <1>3. safe \in Seq(Bytes) /\ Len(safe) = Len(leaf)
    <2>1. safe \in [1..Len(leaf) -> Bytes]
      BY <1>1, <1>2
    <2> QED BY <1>1, <2>1
  <1> HIDE DEF safe
  <1>4. /\ Len(leaf) # 0 => leaf[1] # "cont" /\ leaf[Len(leaf)] # "lead"
        /\ \A i \in 1..(Len(leaf) - 1) : Joint(leaf[i], leaf[i + 1])
        /\ ShortCharacters(leaf)
    BY Whole
  <1>5. Len(safe) # 0 => safe[1] # "cont" /\ safe[Len(safe)] # "lead"
    BY <1>1, <1>2, <1>3, <1>4
  <1>6. ASSUME NEW i \in 1..(Len(safe) - 1) PROVE Joint(safe[i], safe[i + 1])
    <2>1. i \in 1..Len(leaf) /\ i + 1 \in 1..Len(leaf) /\ i \in 1..(Len(leaf) - 1)
      BY <1>1, <1>3
    <2> QED BY <1>2, <1>4, <2>1 DEF Joint
  <1>8. ShortCharacters(safe)
    <2> SUFFICES ASSUME NEW i \in 1..Len(leaf), i + MaxCharacter - 1 <= Len(leaf)
                 PROVE  \E j \in i..(i + MaxCharacter - 1) : safe[j] # "cont"
      BY <1>3 DEF ShortCharacters
    <2>1. PICK j \in i..(i + MaxCharacter - 1) : leaf[j] # "cont"
      BY <1>4 DEF ShortCharacters
    <2>2. MaxCharacter \in Nat
      BY FilenamesAssumption DEF FilenamesAssumption
    <2>3. j \in 1..Len(leaf)
      BY <1>1, <2>2
    <2> QED BY <1>2, <2>1, <2>3
  <1>7. safe \in Text
    BY <1>3, <1>5, <1>6, <1>8, TextByPosition
  <1> QED BY <1>2, <1>3, <1>7 DEF Clean, safe

\* Dots and spaces at the end and spaces in front go, whole characters stay.
LEMMA TrimIsText ==
  ASSUME NEW s \in Text, Clean(s)
  PROVE  /\ Trim(s) \in Text /\ Clean(Trim(s))
         /\ Trim(s) # <<>> => NoTrailing(Trim(s))
  <1> DEFINE I == {i \in 1..Len(s) : s[i] \notin {".", "space"}}
             last == SelectLastInSeq(s, LAMBDA b : b \notin {".", "space"})
             front == SubSeq(s, 1, last)
             J == {i \in 1..Len(front) : front[i] # "space"}
             first == SelectInSeq(front, LAMBDA b : b # "space")
             t == SubSeq(front, first, Len(front))
  <1>1. Trim(s) = IF front = <<>> THEN <<>> ELSE t
    BY DEF Trim
  <1>2. last = IF I # {} THEN Max(I) ELSE 0
    BY DEF SelectLastInSeq
  <1>3. first = IF J # {} THEN Min(J) ELSE 0
    BY DEF SelectInSeq
  <1>4. Len(s) \in Nat
    BY TextType
  <1>5. /\ last \in 0..Len(s)
        /\ last # 0 => s[last] \notin {".", "space"}
        /\ \A i \in 1..Len(s) : i > last => s[i] \in {".", "space"}
    <2>1. I # {} => Max(I) \in I /\ \A i \in I : i <= Max(I)
      <3>1. I \subseteq 0..Len(s)
        BY <1>4
      <3> HIDE DEF I
      <3> QED BY <1>4, <3>1, Greatest, Zenon
    <2> HIDE DEF last
    <2>2. CASE I = {}
      BY <1>2, <1>4, <2>2
    <2>3. CASE I # {}
      <3>1. last \in I /\ \A i \in I : i <= last
        BY <1>2, <2>1, <2>3
      <3> QED BY <1>4, <3>1
    <2> QED BY <2>2, <2>3
  <1> HIDE DEF last
  <1>6. /\ front \in Text /\ Len(front) = last /\ Clean(front)
        /\ \A i \in 1..last : front[i] = s[i]
    <2>1. /\ 1 \in 1..(Len(s) + 1) /\ 1 <= last + 1
          /\ 1 <= last => s[1] # "cont"
          /\ last < Len(s) => s[last + 1] # "cont"
      BY <1>4, <1>5, Whole
    <2>2. /\ front \in Text /\ Len(front) = last - 1 + 1 /\ Clean(front)
          /\ \A i \in 1..(last - 1 + 1) : front[i] = s[1 + i - 1]
      BY <1>5, <2>1, Part
    <2> QED BY <1>4, <1>5, <2>2
  <1> HIDE DEF front
  <1>7. CASE front = <<>>
    BY <1>1, <1>6, <1>7
  <1>8. CASE front # <<>>
    <2>1. last \in 1..Len(s) /\ last \in J /\ front[last] \notin {".", "space"}
      BY <1>4, <1>5, <1>6, <1>8, TextType
    <2>2. Min(J) \in J /\ \A i \in J : Min(J) <= i
      <3>1. J \subseteq Nat /\ J # {}
        BY <1>4, <1>6, <2>1
      <3> HIDE DEF J
      <3>2. \E m \in J : \A n \in J : m <= n
        BY <3>1, Least
      <3> QED BY <3>2 DEF Min
    <2>3. first \in J /\ \A i \in J : first <= i
      BY <1>3, <2>1, <2>2
    <2> HIDE DEF first
    <2>4. first \in 1..last /\ front[first] # "space" /\ \A i \in 1..(first - 1) : front[i] = "space"
      BY <1>4, <1>5, <1>6, <2>3
    <2>5. front[first] # "cont"
      <3>1. CASE first = 1
        BY <1>6, <1>8, <3>1, TextType, Whole
      <3>2. CASE first # 1
        <4>1. /\ first - 1 \in 1..(Len(front) - 1) /\ front[first - 1] = "space"
              /\ (first - 1) + 1 = first
          BY <1>6, <2>1, <2>4, <3>2
        <4>2. Joint(front[first - 1], front[(first - 1) + 1])
          BY <1>6, <4>1, Whole
        <4> QED BY <4>1, <4>2 DEF Joint
      <3> QED BY <3>1, <3>2
    <2>6. /\ first \in 1..(Len(front) + 1) /\ last \in 0..Len(front) /\ first <= last + 1
          /\ ~(last < Len(front))
      BY <1>6, <2>1, <2>4
    <2>7. /\ t \in Text /\ Clean(t) /\ Len(t) = last - first + 1
          /\ \A i \in 1..(last - first + 1) : t[i] = front[first + i - 1]
      BY <1>6, <2>5, <2>6, Part
    <2> HIDE DEF t
    <2>8. t[Len(t)] = front[last]
      <3>1. Len(t) \in 1..(last - first + 1) /\ first + Len(t) - 1 = last
        BY <2>1, <2>4, <2>7
      <3> QED BY <2>7, <3>1
    <2> QED BY <1>1, <1>8, <2>1, <2>7, <2>8 DEF NoTrailing, Last
  <1> QED BY <1>7, <1>8

\* A cut keeps whole characters and loses less than one that would have had room.
LEMMA CutIsText ==
  ASSUME NEW s \in Text, Clean(s), s # <<>> => NoTrailing(s)
  PROVE  /\ Cut(s) \in Text /\ Clean(Cut(s)) /\ Len(Cut(s)) <= MaxBasename
         /\ Cut(s) # <<>> => NoTrailing(Cut(s)) \/ Len(Cut(s)) > MaxBasename - MaxCharacter
  <1> DEFINE dot == LastPos(s, ".")
             kept == dot > 1 /\ Len(s) - dot + 1 <= MaxExtension
             ext == IF kept THEN SubSeq(s, dot, Len(s)) ELSE <<>>
             room == MaxBasename - Len(ext)
             Ends == {k \in 0..room : k = 0 \/ s[k + 1] # "cont"}
             keep == CHOOSE k \in 0..room : /\ k = 0 \/ s[k + 1] # "cont"
                                            /\ \A j \in (k + 1)..room : s[j + 1] = "cont"
             c == SubSeq(s, 1, keep) \o ext
  <1>1. /\ Len(s) \in Nat /\ MaxBasename \in Nat
        /\ MaxExtension \in Nat /\ MaxExtension < MaxBasename
    BY TextType, FilenamesAssumption DEF FilenamesAssumption
  <1>2. CASE Len(s) <= MaxBasename
    BY <1>2 DEF Cut
  <1>3. CASE ~(Len(s) <= MaxBasename)
    <2>1. Cut(s) = c
      BY <1>3 DEF Cut
    <2>2. /\ dot \in 0..Len(s) /\ (dot # 0 => s[dot] = ".")
      BY LastPosition
    <2> HIDE DEF dot
    <2>3. /\ ext \in Text /\ Clean(ext) /\ Len(ext) \in 0..MaxExtension
          /\ ext # <<>> => ext[Len(ext)] = s[Len(s)]
      <3>1. CASE kept
        <4>1. /\ dot \in 1..(Len(s) + 1) /\ Len(s) \in 0..Len(s) /\ dot <= Len(s) + 1
              /\ s[dot] # "cont" /\ ~(Len(s) < Len(s))
          BY <1>1, <2>2, <3>1
        <4>2. /\ ext \in Text /\ Clean(ext) /\ Len(ext) = Len(s) - dot + 1
              /\ \A i \in 1..(Len(s) - dot + 1) : ext[i] = s[dot + i - 1]
          BY <3>1, <4>1, Part
        <4>3. Len(s) - dot + 1 \in 1..MaxExtension /\ dot + (Len(s) - dot + 1) - 1 = Len(s)
          BY <1>1, <2>2, <3>1
        <4>4. /\ Len(s) - dot + 1 \in 1..(Len(s) - dot + 1)
              /\ Len(ext) \in 0..MaxExtension
          BY <1>1, <2>2, <4>2, <4>3
        <4>5. ext[Len(s) - dot + 1] = s[dot + (Len(s) - dot + 1) - 1]
          BY <4>2, <4>4
        <4> QED BY <4>2, <4>3, <4>4, <4>5
      <3>2. CASE ~kept
        <4>1. ext = <<>> /\ <<>> \in Text /\ Clean(<<>>) /\ Len(<<>>) = 0
          BY <3>2 DEF Text, ValidUtf8, Clean
        <4> HIDE DEF ext
        <4> QED BY <1>1, <4>1
      <3> QED BY <3>1, <3>2
    <2> HIDE DEF ext
    <2>4. room \in Nat /\ room + 1 <= Len(s) /\ room = MaxBasename - Len(ext)
      BY <1>1, <1>3, <2>3
    <2> HIDE DEF room
    <2>5. /\ keep \in 0..room /\ (keep = 0 \/ s[keep + 1] # "cont")
          /\ \A j \in (keep + 1)..room : s[j + 1] = "cont"
      <3>1. Ends \subseteq 0..room /\ 0 \in Ends
        BY <2>4
      <3> DEFINE m == Max(Ends)
      <3>2. m \in Ends /\ \A k \in Ends : k <= m
        <4> HIDE DEF Ends
        <4> QED BY <2>4, <3>1, Greatest
      <3> HIDE DEF m
      <3>3. /\ m \in 0..room /\ (m = 0 \/ s[m + 1] # "cont")
            /\ \A j \in (m + 1)..room : s[j + 1] = "cont"
        BY <2>4, <3>2
      <3> QED BY <3>3
    <2> HIDE DEF keep
    <2>6. MaxCharacter \in Nat /\ keep > room - MaxCharacter
      <3>1. MaxCharacter \in Nat \ {0} /\ ShortCharacters(s)
        BY Whole, FilenamesAssumption DEF FilenamesAssumption
      <3> SUFFICES ASSUME keep + MaxCharacter <= room PROVE FALSE
        BY <2>4, <2>5, <3>1
      <3>2. keep + 2 \in 1..Len(s) /\ (keep + 2) + MaxCharacter - 1 <= Len(s)
        BY <1>1, <2>4, <2>5, <3>1
      <3>3. PICK j \in (keep + 2)..((keep + 2) + MaxCharacter - 1) : s[j] # "cont"
        BY <3>1, <3>2 DEF ShortCharacters
      <3>4. j - 1 \in (keep + 1)..room /\ (j - 1) + 1 = j
        BY <2>4, <2>5, <3>1
      <3> QED BY <2>5, <3>3, <3>4
    <2>7. SubSeq(s, 1, keep) \in Text /\ Clean(SubSeq(s, 1, keep))
          /\ Len(SubSeq(s, 1, keep)) = keep
      <3>1. CASE keep = 0
        <4>1. SubSeq(s, 1, keep) = <<>>
          BY <3>1, SubSeqEmpty
        <4>2. <<>> \in Text /\ Clean(<<>>) /\ Len(<<>>) = 0
          BY DEF Text, ValidUtf8, Clean
        <4> QED BY <3>1, <4>1, <4>2
      <3>2. CASE keep # 0
        <4>1. /\ 1 \in 1..(Len(s) + 1) /\ keep \in 0..Len(s) /\ 1 <= keep + 1
              /\ s[1] # "cont" /\ s[keep + 1] # "cont" /\ keep - 1 + 1 = keep
          BY <1>1, <2>4, <2>5, <3>2, Whole
        <4> QED BY <4>1, Part
      <3> QED BY <3>1, <3>2
    <2>8. /\ c \in Text /\ Clean(c) /\ Len(c) = keep + Len(ext)
          /\ \A i \in 1..(keep + Len(ext)) :
               c[i] = IF i <= keep THEN SubSeq(s, 1, keep)[i] ELSE ext[i - keep]
      <3> DEFINE p == SubSeq(s, 1, keep)
      <3>1. p \in Text /\ Clean(p) /\ Len(p) = keep /\ c = p \o ext
        BY <2>7 DEF c
      <3> HIDE DEF p, c
      <3>2. /\ p \o ext \in Text /\ Clean(p \o ext) /\ Len(p \o ext) = Len(p) + Len(ext)
            /\ \A i \in 1..(Len(p) + Len(ext)) :
                 (p \o ext)[i] = IF i <= Len(p) THEN p[i] ELSE ext[i - Len(p)]
        BY <2>3, <3>1, Joined
      <3> QED BY <3>1, <3>2 DEF p
    <2> HIDE DEF c
    <2>9. CASE ext = <<>>
      <3>1. Len(ext) = 0
        BY <2>9
      <3>2. Len(c) <= MaxBasename /\ Len(c) > MaxBasename - MaxCharacter
        BY <1>1, <2>4, <2>5, <2>6, <2>8, <3>1
      <3> QED BY <2>1, <2>8, <3>2
    <2>10. CASE ext # <<>>
      <3>1. Len(ext) # 0
        BY <2>3, <2>10, TextType
      <3>2. /\ Len(c) <= MaxBasename
            /\ Len(c) \in 1..(keep + Len(ext)) /\ ~(Len(c) <= keep) /\ Len(c) - keep = Len(ext)
        BY <1>1, <2>3, <2>4, <2>5, <2>8, <3>1
      <3>3. c[Len(c)] = s[Len(s)]
        BY <2>3, <2>8, <2>10, <3>2
      <3>4. s # <<>>
        BY <1>1, <1>3, TextType
      <3> QED BY <2>1, <2>8, <3>2, <3>3, <3>4 DEF NoTrailing, Last
    <2> QED BY <2>9, <2>10
  <1> QED BY <1>2, <1>3

\* Every name in the queue is not empty, has no separator and no illegal
\* character, is no device and no longer than the limit, holds whole characters,
\* and ends in a dot or a space only where it was cut (SanitizeFilename).
THEOREM SanitizedIsSafe ==
  ASSUME NEW s \in Text
  PROVE  LET out == SanitizeFilename(s)
         IN  /\ SafeOnDisk(out) /\ ValidUtf8(out)
             /\ NoTrailing(out) \/ Len(out) > MaxBasename - MaxCharacter
  <1> DEFINE leaf == SubSeq(s, LastPos(s, "/") + 1, Len(s))
             safe == [i \in DOMAIN leaf |-> IF leaf[i] = "?" THEN "x" ELSE leaf[i]]
             out == Cut(Trim(safe))
  <1>1. leaf \in Text /\ \A i \in 1..Len(leaf) : leaf[i] # "/"
    BY LeafIsText
  <1>2. safe \in Text /\ Clean(safe)
    BY <1>1, SafeIsText
  <1>3. SanitizeFilename(s) =
          IF out \in {<<>>, <<".">>, <<".", ".">>} \/ IsReservedDeviceName(out)
          THEN Attachment ELSE out
    BY DEF SanitizeFilename
  <1> HIDE DEF safe
  <1>4. /\ Trim(safe) \in Text /\ Clean(Trim(safe))
        /\ Trim(safe) # <<>> => NoTrailing(Trim(safe))
    BY <1>2, TrimIsText
  <1>5. /\ out \in Text /\ Clean(out) /\ Len(out) <= MaxBasename
        /\ out # <<>> => NoTrailing(out) \/ Len(out) > MaxBasename - MaxCharacter
    BY <1>4, CutIsText
  <1> HIDE DEF out
  <1>6. CASE SanitizeFilename(s) = Attachment
    <2>1. /\ Attachment # <<>> /\ Len(Attachment) = 1 /\ Attachment[1] = "attachment"
          /\ DOMAIN Attachment = 1..1
      BY DEF Attachment
    <2>2. ToSet(Attachment) \cap {"/", "?"} = {}
      BY <2>1 DEF ToSet
    <2>3. MaxBasename \in Nat /\ 1 <= MaxBasename /\ MaxCharacter \in Nat
      BY FilenamesAssumption DEF FilenamesAssumption
    <2>4. NoTrailing(Attachment) /\ ~IsReservedDeviceName(Attachment)
      BY <2>1 DEF NoTrailing, Last, IsReservedDeviceName
    <2>5. ValidUtf8(Attachment)
      <3>1. ASSUME NEW i \in 1..1, i + MaxCharacter - 1 <= 1
            PROVE  \E j \in i..(i + MaxCharacter - 1) : Attachment[j] # "cont"
        <4>1. i = 1 /\ MaxCharacter <= 1
          BY <2>3, <3>1
        <4>2. MaxCharacter = 1 /\ 1 \in i..(i + MaxCharacter - 1)
          BY <4>1, FilenamesAssumption DEF FilenamesAssumption
        <4> QED BY <2>1, <4>2
      <3> QED BY <2>1, <3>1 DEF ValidUtf8
    <2> QED BY <1>6, <2>1, <2>2, <2>3, <2>4, <2>5 DEF SafeOnDisk
  <1>7. CASE SanitizeFilename(s) # Attachment
    <2>1. SanitizeFilename(s) = out /\ out # <<>> /\ ~IsReservedDeviceName(out)
      BY <1>3, <1>7
    <2>2. ToSet(out) \cap {"/", "?"} = {}
      BY <1>5, TextType DEF Clean, ToSet
    <2>3. ValidUtf8(out)
      BY <1>5 DEF Text
    <2> QED BY <1>5, <2>1, <2>2, <2>3 DEF SafeOnDisk
  <1> QED BY <1>6, <1>7
-----------------------------------------------------------------------------
(* The pieces of a list.                                                   *)

\* g is the fold on the subsets of the positions S of the list s.
Folds(g, S, s) ==
  g = [P \in SUBSET S |->
         IF P = {} THEN <<>> ELSE Keep(g[P \ {Max(P)}], s[Max(P)])]

\* There is such a function for the first n positions.
LEMMA FoldExists ==
  ASSUME NEW s, NEW n \in Nat
  PROVE  \E g : Folds(g, 1..n, s)
  <1> DEFINE Reached == {k \in Nat : \E g : Folds(g, 1..k, s)}
  <1>1. 0 \in Reached
    <2>1. Folds([P \in SUBSET (1..0) |-> <<>>], 1..0, s)
      BY DEF Folds
    <2> QED BY <2>1
  <1>2. ASSUME NEW k \in Nat, k \in Reached PROVE k + 1 \in Reached
    <2>1. PICK g : Folds(g, 1..k, s)
      BY <1>2
    <2> DEFINE h == [P \in SUBSET (1..(k + 1)) |->
                       IF P = {} THEN <<>> ELSE Keep(g[P \ {Max(P)}], s[Max(P)])]
    <2>2. ASSUME NEW P \in SUBSET (1..(k + 1)), P # {}
          PROVE  P \ {Max(P)} \in SUBSET (1..k) /\ Max(P) \in P
      <3>1. P \subseteq 0..(k + 1)
        OBVIOUS
      <3>2. Max(P) \in P /\ \A m \in P : m <= Max(P)
        <4>1. k + 1 \in Nat
          OBVIOUS
        <4> HIDE DEF h, Reached
        <4> QED BY <2>2, <3>1, <4>1, Greatest, Zenon
      <3>3. ASSUME NEW m \in P \ {Max(P)} PROVE m \in 1..k
        <4>1. /\ m \in 1..(k + 1) /\ Max(P) \in 1..(k + 1)
              /\ m <= Max(P) /\ m # Max(P)
          BY <3>2
        <4> QED BY <4>1
      <3> QED BY <3>2, <3>3
    <2>3. ASSUME NEW P \in SUBSET (1..k) PROVE h[P] = g[P]
      <3>1. P \in SUBSET (1..(k + 1))
        OBVIOUS
      <3>2. h[P] = IF P = {} THEN <<>> ELSE Keep(g[P \ {Max(P)}], s[Max(P)])
        BY <3>1
      <3>3. g[P] = IF P = {} THEN <<>> ELSE Keep(g[P \ {Max(P)}], s[Max(P)])
        BY <2>1 DEF Folds
      <3> QED BY <3>2, <3>3
    <2>4. ASSUME NEW P \in SUBSET (1..(k + 1))
          PROVE  h[P] = IF P = {} THEN <<>> ELSE Keep(h[P \ {Max(P)}], s[Max(P)])
      <3>1. CASE P = {}
        BY <3>1
      <3>2. CASE P # {}
        <4>1. h[P \ {Max(P)}] = g[P \ {Max(P)}]
          BY <2>2, <2>3, <3>2
        <4>2. h[P] = Keep(g[P \ {Max(P)}], s[Max(P)])
          BY <3>2
        <4> QED BY <3>2, <4>1, <4>2
      <3> QED BY <3>1, <3>2
    <2> HIDE DEF h
    <2>5. h = [P \in SUBSET (1..(k + 1)) |-> h[P]]
      BY DEF h
    <2>6. Folds(h, 1..(k + 1), s)
      BY <2>4, <2>5 DEF Folds
    <2> QED BY <2>6
  <1> QED BY <1>1, <1>2, Induction

\* SplitDelimited reads the list from its first entry to its last.
LEMMA ReadsInOrder ==
  ASSUME NEW s, NEW n \in Nat, DOMAIN s = 1..n
  PROVE  \E h : /\ h[0] = <<>> /\ h[n] = SplitDelimited(s)
               /\ \A k \in 1..n : h[k] = Keep(h[k - 1], s[k])
  <1>1. SplitDelimited(s) = (CHOOSE g : Folds(g, DOMAIN s, s))[DOMAIN s]
    BY DEF SplitDelimited, FoldLeft, MapThenFoldSet, Folds, Keep
  <1>2. PICK g : Folds(g, 1..n, s) /\ SplitDelimited(s) = g[1..n]
    BY <1>1, FoldExists
  <1> DEFINE h == [k \in 0..n |-> g[1..k]]
  <1>3. h[0] = <<>>
    <2>1. 1..0 = {} /\ {} \in SUBSET (1..n)
      OBVIOUS
    <2> QED BY <1>2, <2>1 DEF Folds
  <1>4. ASSUME NEW k \in 1..n PROVE h[k] = Keep(h[k - 1], s[k])
    <2>1. k \in Nat /\ k \in 1..k /\ 1..k \in SUBSET (1..n) /\ 1..k \subseteq 0..k
      OBVIOUS
    <2>2. Max(1..k) = k
      <3>1. Max(1..k) \in 1..k /\ k <= Max(1..k)
        BY <2>1, Greatest, Zenon
      <3> QED BY <3>1
    <2>3. (1..k) \ {k} = 1..(k - 1)
      OBVIOUS
    <2>4. g[1..k] = Keep(g[1..(k - 1)], s[k])
      BY <1>2, <2>1, <2>2, <2>3 DEF Folds
    <2> QED BY <2>4
  <1>5. h[n] = SplitDelimited(s)
    BY <1>2
  <1> HIDE DEF h
  <1> QED BY <1>3, <1>4, <1>5

\* What remains are pieces of the list, none empty; a list without gaps stays.
LEMMA PiecesRemain ==
  ASSUME NEW S, NEW list \in Seq(S)
  PROVE  /\ SplitDelimited(list) \in Seq(S)
         /\ (\A i \in 1..Len(list) : list[i] # <<>>) => SplitDelimited(list) = list
  <1>1. /\ Len(list) \in Nat /\ DOMAIN list = 1..Len(list)
        /\ \A i \in 1..Len(list) : list[i] \in S
    BY LenProperties, ElementOfSeq
  <1>2. PICK h : /\ h[0] = <<>> /\ h[Len(list)] = SplitDelimited(list)
                 /\ \A k \in 1..Len(list) : h[k] = Keep(h[k - 1], list[k])
    BY <1>1, ReadsInOrder
  <1> DEFINE Gapless(k) == \A i \in 1..k : list[i] # <<>>
             Right == {k \in Nat : k <= Len(list) =>
                         /\ h[k] \in Seq(S)
                         /\ Gapless(k) => /\ Len(h[k]) = k
                                          /\ \A i \in 1..k : h[k][i] = list[i]}
  <1>3. 0 \in Right
    <2>1. h[0] \in Seq(S) /\ Len(h[0]) = 0 /\ \A i \in 1..0 : h[0][i] = list[i]
      BY <1>2, EmptySeq
    <2> QED BY <2>1
  <1>4. ASSUME NEW k \in Nat, k \in Right, k + 1 <= Len(list)
        PROVE  /\ h[k + 1] \in Seq(S)
               /\ Gapless(k + 1) => /\ Len(h[k + 1]) = k + 1
                                    /\ \A i \in 1..(k + 1) : h[k + 1][i] = list[i]
    <2>1. /\ h[k] \in Seq(S) /\ list[k + 1] \in S
          /\ Gapless(k) => Len(h[k]) = k /\ \A i \in 1..k : h[k][i] = list[i]
      BY <1>1, <1>4
    <2>2. h[k + 1] = Keep(h[k], list[k + 1])
      <3>1. k + 1 \in 1..Len(list) /\ (k + 1) - 1 = k
        BY <1>1, <1>4
      <3> QED BY <1>2, <3>1
    <2> DEFINE longer == Append(h[k], list[k + 1])
    <2>3. /\ longer \in Seq(S) /\ Len(longer) = Len(h[k]) + 1
          /\ \A i \in 1..Len(h[k]) : longer[i] = h[k][i]
          /\ longer[Len(h[k]) + 1] = list[k + 1]
      BY <2>1, AppendProperties
    <2>4. h[k + 1] = IF list[k + 1] = <<>> THEN h[k] ELSE longer
      BY <2>2 DEF Keep
    <2> HIDE DEF longer
    <2>5. h[k + 1] \in Seq(S)
      BY <2>1, <2>3, <2>4
    <2>6. ASSUME Gapless(k + 1)
          PROVE  Len(h[k + 1]) = k + 1 /\ \A i \in 1..(k + 1) : h[k + 1][i] = list[i]
      <3>1. Gapless(k) /\ list[k + 1] # <<>>
        BY <2>6
      <3>2. Len(h[k]) = k /\ (\A i \in 1..k : h[k][i] = list[i]) /\ h[k + 1] = longer
        BY <2>1, <2>4, <3>1
      <3>3. \A i \in 1..(k + 1) : i \in 1..k \/ i = k + 1
        OBVIOUS
      <3> QED BY <2>3, <3>2, <3>3
    <2> QED BY <2>5, <2>6
  <1>5. ASSUME NEW k \in Nat, k \in Right PROVE k + 1 \in Right
    BY <1>1, <1>4, <1>5
  <1> HIDE DEF Right
  <1>6. Len(list) \in Right
    BY <1>1, <1>3, <1>5, Induction
  <1>7. /\ SplitDelimited(list) \in Seq(S)
        /\ Gapless(Len(list)) =>
             /\ Len(SplitDelimited(list)) = Len(list)
             /\ \A i \in 1..Len(list) : SplitDelimited(list)[i] = list[i]
    BY <1>1, <1>2, <1>6 DEF Right
  <1>8. Gapless(Len(list)) => SplitDelimited(list) = list
    BY <1>7, SeqEqual
  <1> QED BY <1>7, <1>8
-----------------------------------------------------------------------------
(* What becomes of a call.                                                 *)

\* The message that the interceptor makes of it.
Original ==
  IF call.api = "SendMail" THEN ConvertMessage(call)
  ELSE [recipients  |-> <<>>,
        attachments |-> Documents(SplitDelimited(call.paths), SplitDelimited(call.names))]

Count == Len(Original.attachments)

\* Its attachments when those before the k-th have been copied.
Taken(k) ==
  [i \in 1..Count |->
     [path     |-> Original.attachments[i].path,
      filename |-> Original.attachments[i].filename,
      from     |-> IF i < k /\ Original.attachments[i].path # <<>> THEN "queue" ELSE "caller"]]

\* The names under which they were copied.
TakenNames(k) ==
  {Basename(Original.attachments[i]) :
     i \in {j \in 1..(k - 1) : Original.attachments[j].path # <<>>}}

Normalized ==
  [i \in DOMAIN Original.recipients |-> normalizeAddress(Original.recipients[i])]

OnItsWay == {"copy", "queued", "row", "rejected", "failed", "drafted"}

\* Until the end the message is the original, as far as it has been copied, and
\* the directory holds those copies; what is given up leaves none behind.
MailInv ==
  /\ call \in Calls /\ size \in Nat
  /\ pc \in OnItsWay \cup {"call", "refused"}
  /\ pc = "call" => next = 1
  /\ pc \in {"call", "refused"} => copies = {}
  /\ pc \in OnItsWay =>
       /\ next \in 1..(Count + 1) /\ (pc # "copy" => next = Count + 1)
       /\ mail = [recipients  |-> IF pc \in {"copy", "queued", "rejected"}
                                  THEN Original.recipients ELSE Normalized,
                  attachments |-> Taken(next)]
       /\ copies = TakenNames(next)
  /\ pc \in {"row", "failed", "drafted"} => ValidateMailMessage(Normalized)
-----------------------------------------------------------------------------
(* What the caller handed over.                                            *)

Copyable == [path: Text, filename: Text, from: {"caller", "queue"}]

LEMMA ConvertedFile ==
  ASSUME NEW f \in Entry
  PROVE  /\ ConvertFile(f) \in Copyable /\ ConvertFile(f).path = f.path
         /\ ConvertFile(f).from = "caller"
  <1>1. f.path \in Text /\ (f.filename # Null => f.filename \in Text)
    BY DEF Entry
  <1>2. <<>> \in Text /\ FilenameFromPath(f.path) \in Text
    BY <1>1, FromPathIsText, EmptySeq DEF Text, ValidUtf8
  <1>3. ConvertFile(f).filename \in Text
    BY <1>1, <1>2 DEF ConvertFile
  <1> QED BY <1>1, <1>3 DEF ConvertFile, Copyable

LEMMA ConvertedRecipient ==
  ASSUME NEW r \in Recipient
  PROVE  /\ ConvertRecipient(r).class = IF r.class = "other" THEN "to" ELSE r.class
         /\ ConvertRecipient(r).address =
              IF r.address = "none" /\ r.name = "email" THEN "plain" ELSE r.address
         /\ \E c, n, a : ConvertRecipient(r) = [class |-> c, name |-> n, address |-> a]
  <1>1. r = [class |-> r.class, name |-> r.name, address |-> r.address]
    BY DEF Recipient
  <1>2. /\ r.class \in {"to", "cc", "bcc", "other"} /\ r.name \in {"words", "email"}
        /\ r.address \in {"none", "plain", "prefixed", "prefix", "control"}
    BY DEF Recipient
  <1> DEFINE c == IF r.class \in {"to", "cc", "bcc"} THEN r.class ELSE "to"
             q == [class |-> c, name |-> r.name, address |-> r.address]
  <1>3. c = IF r.class = "other" THEN "to" ELSE r.class
    BY <1>2
  <1> HIDE DEF c
  <1>4. ConvertRecipient(r) = PromoteEmailShapedNameToAddress(q)
    <2>1. [r EXCEPT !.class = IF @ \in {"to", "cc", "bcc"} THEN @ ELSE "to"] = q
      BY <1>1 DEF c
    <2> QED BY <2>1 DEF ConvertRecipient
  <1>5. CASE r.address = "none" /\ r.name = "email"
    <2>1. ConvertRecipient(r) = [q EXCEPT !.address = "plain", !.name = "none"]
      BY <1>4, <1>5 DEF PromoteEmailShapedNameToAddress
    <2> QED BY <1>3, <1>5, <2>1
  <1>6. CASE ~(r.address = "none" /\ r.name = "email")
    <2>1. ConvertRecipient(r) = q
      BY <1>4, <1>6 DEF PromoteEmailShapedNameToAddress
    <2>2. ConvertRecipient(r).class = c /\ ConvertRecipient(r).address = r.address
      BY <2>1
    <2>3. \E k, n, a : ConvertRecipient(r) = [class |-> k, name |-> n, address |-> a]
      BY <2>1, Zenon
    <2> QED BY <1>3, <1>6, <2>2, <2>3
  <1> QED BY <1>5, <1>6

\* A list of which every entry is known is a sequence.
LEMMA ListIsSeq ==
  ASSUME NEW n \in Nat, NEW f, f = [i \in 1..n |-> f[i]], NEW S, \A i \in 1..n : f[i] \in S
  PROVE  f \in Seq(S) /\ Len(f) = n /\ DOMAIN f = 1..n
  OBVIOUS

\* The two kinds of calls.
LEMMA CallTypes ==
  ASSUME call \in Calls
  PROVE  \/ /\ call.api = "SendMail"
            /\ call.recipients \in Seq(Recipient) /\ call.files \in Seq(Entry)
         \/ /\ call.api = "SendDocuments"
            /\ call.paths \in Seq(Text) /\ call.names \in Seq(Text)
  BY CallsAssumption DEF CallsAssumption

\* The attachments are the files, in order, each with its name.
LEMMA OriginalFiles ==
  ASSUME call \in Calls
  PROVE  /\ Count \in Nat /\ Count = Len(Files) /\ DOMAIN Files = 1..Count
         /\ DOMAIN Original.attachments = 1..Count
         /\ \A i \in 1..Count :
              LET a == Original.attachments[i]
              IN  /\ a \in Copyable /\ a.from = "caller" /\ a.path = Files[i]
                  /\ a.filename = Wanted(i) \/ Shifted
  <1>1. CASE call.api = "SendMail"
    <2>1. call.files \in Seq(Entry)
      BY <1>1, CallTypes
    <2>2. /\ Len(call.files) \in Nat /\ DOMAIN call.files = 1..Len(call.files)
          /\ \A i \in 1..Len(call.files) : call.files[i] \in Entry
      BY <2>1, LenProperties, ElementOfSeq
    <2> DEFINE list == Original.attachments
    <2>3. list = [i \in 1..Len(call.files) |-> ConvertFile(call.files[i])]
      BY <1>1, <2>2 DEF Original, ConvertMessage
    <2>4. \A i \in 1..Len(call.files) : ConvertFile(call.files[i]) \in Copyable
      BY <2>2, ConvertedFile
    <2> HIDE DEF list
    <2>5. Len(list) = Len(call.files) /\ DOMAIN list = 1..Len(call.files)
      BY <2>2, <2>3, <2>4, ListIsSeq
    <2>6. /\ Files = [i \in 1..Len(call.files) |-> call.files[i].path]
          /\ \A i \in 1..Len(call.files) : Files[i] \in Text
      BY <1>1, <2>2 DEF Files, Entry
    <2>7. Len(Files) = Len(call.files) /\ DOMAIN Files = 1..Len(call.files)
      BY <2>2, <2>6, ListIsSeq
    <2>8. ASSUME NEW i \in 1..Len(call.files)
          PROVE  /\ list[i] \in Copyable /\ list[i].from = "caller"
                 /\ list[i].path = Files[i] /\ list[i].filename = Wanted(i)
      BY <1>1, <2>2, <2>3, <2>6, ConvertedFile DEF Wanted
    <2> QED BY <2>2, <2>5, <2>7, <2>8 DEF Count, list
  <1>2. CASE call.api = "SendDocuments"
    <2> DEFINE paths == SplitDelimited(call.paths)
               names == SplitDelimited(call.names)
               list == Original.attachments
    <2>1. paths \in Seq(Text) /\ names \in Seq(Text)
      BY <1>2, CallTypes, PiecesRemain
    <2>2. Files = paths /\ Original.attachments = Documents(paths, names)
      BY <1>2 DEF Files, Original
    <2>3. ~Shifted => names = call.names /\ \A i \in 1..Len(names) : names[i] # <<>>
      <3> SUFFICES ASSUME ~Shifted
                   PROVE  names = call.names /\ \A i \in 1..Len(names) : names[i] # <<>>
        OBVIOUS
      <3>1. call.names \in Seq(Text)
        BY <1>2, CallTypes
      <3>2. \A i \in 1..Len(call.names) : call.names[i] # <<>>
        BY <1>2, <3>1, LenProperties DEF Shifted, ToSet
      <3> QED BY <3>1, <3>2, PiecesRemain
    <2>4. /\ Len(paths) \in Nat /\ DOMAIN paths = 1..Len(paths)
          /\ \A i \in 1..Len(paths) : paths[i] \in Text
          /\ Len(names) \in Nat /\ \A i \in 1..Len(names) : names[i] \in Text
      BY <2>1, LenProperties, ElementOfSeq
    <2> HIDE DEF paths, names, list
    <2>5. list = [i \in 1..Len(paths) |->
                    [path     |-> paths[i],
                     filename |-> IF i <= Len(names) THEN names[i]
                                  ELSE FilenameFromPath(paths[i]),
                     from     |-> "caller"]]
      BY <2>2, <2>4 DEF Documents, list
    <2>6. ASSUME NEW i \in 1..Len(paths)
          PROVE  /\ list[i] \in Copyable /\ list[i].from = "caller" /\ list[i].path = paths[i]
                 /\ list[i].filename = IF i <= Len(names) THEN names[i]
                                       ELSE FilenameFromPath(paths[i])
      <3>1. (IF i <= Len(names) THEN names[i] ELSE FilenameFromPath(paths[i])) \in Text
        <4>1. CASE i <= Len(names)
          BY <2>4, <4>1
        <4>2. CASE ~(i <= Len(names))
          BY <2>4, <4>2, FromPathIsText
        <4> QED BY <4>1, <4>2
      <3> QED BY <2>4, <2>5, <3>1 DEF Copyable
    <2>7. Len(list) = Len(paths) /\ DOMAIN list = 1..Len(paths)
      BY <2>4, <2>5, <2>6, ListIsSeq
    <2>8. ASSUME NEW i \in 1..Len(paths) PROVE list[i].filename = Wanted(i) \/ Shifted
      <3> SUFFICES ASSUME ~Shifted PROVE list[i].filename = Wanted(i)
        OBVIOUS
      <3>1. Wanted(i) = IF i <= Len(call.names) /\ call.names[i] # <<>> THEN call.names[i]
                        ELSE FilenameFromPath(paths[i])
        BY <1>2 DEF Wanted, paths
      <3>2. i <= Len(names) => i \in 1..Len(names)
        BY <2>4
      <3> QED BY <2>3, <2>6, <3>1, <3>2
    <2> QED BY <2>2, <2>4, <2>6, <2>7, <2>8 DEF Count, list
  <1> QED BY <1>1, <1>2, CallTypes
\* The recipients are those of the caller, a list of documents has none.
LEMMA OriginalRecipients ==
  ASSUME call \in Calls
  PROVE  /\ call.api \in {"SendMail", "SendDocuments"}
         /\ call.api = "SendMail" =>
              /\ Len(call.recipients) \in Nat
              /\ DOMAIN call.recipients = 1..Len(call.recipients)
              /\ Original.recipients =
                   [i \in 1..Len(call.recipients) |-> ConvertRecipient(call.recipients[i])]
              /\ \A i \in 1..Len(call.recipients) : call.recipients[i] \in Recipient
         /\ call.api = "SendDocuments" => DOMAIN Original.recipients = {}
  <1>1. CASE call.api = "SendMail"
    <2>1. call.recipients \in Seq(Recipient)
      BY <1>1, CallTypes
    <2>2. /\ Len(call.recipients) \in Nat
          /\ DOMAIN call.recipients = 1..Len(call.recipients)
          /\ \A i \in 1..Len(call.recipients) : call.recipients[i] \in Recipient
      BY <2>1, LenProperties, ElementOfSeq
    <2> QED BY <1>1, <2>2 DEF Original, ConvertMessage
  <1>2. CASE call.api = "SendDocuments"
    BY <1>2 DEF Original
  <1> QED BY <1>1, <1>2, CallTypes

\* The name of a copy depends on where the file comes from no more.
LEMMA SameBasename ==
  ASSUME call \in Calls, NEW k, NEW i \in 1..Count
  PROVE  /\ Taken(k)[i].path = Files[i]
         /\ Taken(k)[i].filename = Original.attachments[i].filename
         /\ Taken(k)[i].from = IF i < k /\ Files[i] # <<>> THEN "queue" ELSE "caller"
         /\ Basename(Taken(k)[i]) = Basename(Original.attachments[i])
  <1>1. /\ Taken(k)[i].path = Original.attachments[i].path
        /\ Taken(k)[i].filename = Original.attachments[i].filename
        /\ Taken(k)[i].from = IF i < k /\ Original.attachments[i].path # <<>>
                              THEN "queue" ELSE "caller"
    BY DEF Taken
  <1>2. Original.attachments[i].path = Files[i]
    BY OriginalFiles
  <1> QED BY <1>1, <1>2 DEF Basename

LEMMA TakenTypes ==
  ASSUME call \in Calls, NEW k
  PROVE  Len(Taken(k)) = Count /\ DOMAIN Taken(k) = 1..Count
  <1>1. Count \in Nat
    BY OriginalFiles
  <1>2. Taken(k) \in [1..Count -> {Taken(k)[i] : i \in 1..Count}]
    BY DEF Taken
  <1> QED BY <1>1, <1>2

\* Nothing has been copied before the first.
LEMMA TakenNothing ==
  ASSUME call \in Calls
  PROVE  /\ Taken(1) = Original.attachments /\ TakenNames(1) = {}
         /\ Original = [recipients |-> Original.recipients,
                        attachments |-> Original.attachments]
  <1>1. /\ Count \in Nat /\ DOMAIN Original.attachments = 1..Count
        /\ \A i \in 1..Count : /\ Original.attachments[i] \in Copyable
                               /\ Original.attachments[i].from = "caller"
    BY OriginalFiles
  <1>2. ASSUME NEW i \in 1..Count PROVE Taken(1)[i] = Original.attachments[i]
    <2>1. /\ Original.attachments[i] \in Copyable
          /\ Original.attachments[i].from = "caller" /\ ~(i < 1)
      BY <1>1
    <2> DEFINE a == Original.attachments[i]
    <2>2. a = [path |-> a.path, filename |-> a.filename, from |-> "caller"]
      BY <2>1 DEF Copyable
    <2> QED BY <2>1, <2>2 DEF Taken
  <1>3. \E S : Original.attachments \in [1..Count -> S]
    <2>1. CASE call.api = "SendMail"
      <3>1. Original.attachments =
              [i \in DOMAIN call.files |-> ConvertFile(call.files[i])]
        BY <2>1 DEF Original, ConvertMessage
      <3> QED BY <1>1, <3>1
    <2>2. CASE call.api # "SendMail"
      <3>1. Original.attachments =
              Documents(SplitDelimited(call.paths), SplitDelimited(call.names))
        BY <2>2 DEF Original
      <3> QED BY <1>1, <3>1 DEF Documents
    <2> QED BY <2>1, <2>2
  <1>4. Taken(1) = Original.attachments
    BY <1>2, <1>3 DEF Taken
  <1>5. TakenNames(1) = {}
    BY DEF TakenNames
  <1>6. Original = [recipients |-> Original.recipients, attachments |-> Original.attachments]
    BY DEF Original, ConvertMessage
  <1> QED BY <1>4, <1>5, <1>6

\* One more copy.
LEMMA TakenOneMore ==
  ASSUME call \in Calls, NEW k \in 1..Count
  PROVE  /\ Files[k] = <<>> => Taken(k + 1) = Taken(k) /\ TakenNames(k + 1) = TakenNames(k)
         /\ Files[k] # <<>> =>
              /\ Taken(k + 1) = [Taken(k) EXCEPT ![k].from = "queue"]
              /\ TakenNames(k + 1) = TakenNames(k) \cup {Basename(Original.attachments[k])}
  <1>1. Count \in Nat /\ Original.attachments[k].path = Files[k]
    BY OriginalFiles
  <1>2. \A j : j \in 1..((k + 1) - 1) <=> (j \in 1..(k - 1) \/ j = k)
    BY <1>1
  <1>3. \A i \in 1..Count : i # k => (i < k + 1 <=> i < k)
    BY <1>1
  <1>4. CASE Files[k] = <<>>
    <2>1. TakenNames(k + 1) = TakenNames(k)
      BY <1>1, <1>2, <1>4 DEF TakenNames
    <2>2. \A i \in 1..Count : Taken(k + 1)[i] = Taken(k)[i]
      BY <1>1, <1>3, <1>4 DEF Taken
    <2> QED BY <1>4, <2>1, <2>2 DEF Taken
  <1>5. CASE Files[k] # <<>>
    <2>1. TakenNames(k + 1) = TakenNames(k) \cup {Basename(Original.attachments[k])}
      BY <1>1, <1>2, <1>5 DEF TakenNames
    <2>2. \A i \in 1..Count : Taken(k + 1)[i] = [Taken(k) EXCEPT ![k].from = "queue"][i]
      <3>1. ASSUME NEW i \in 1..Count, i # k
            PROVE  Taken(k + 1)[i] = [Taken(k) EXCEPT ![k].from = "queue"][i]
        BY <1>3, <3>1 DEF Taken
      <3>2. Taken(k + 1)[k] = [Taken(k) EXCEPT ![k].from = "queue"][k]
        <4>1. k < k + 1
          BY <1>1
        <4> QED BY <1>1, <1>5, <4>1 DEF Taken
      <3> QED BY <3>1, <3>2
    <2>3. Taken(k + 1) = [Taken(k) EXCEPT ![k].from = "queue"]
      BY <2>2 DEF Taken
    <2> QED BY <1>5, <2>1, <2>3
  <1> QED BY <1>4, <1>5
-----------------------------------------------------------------------------
(* The message on its way.                                                 *)

LEMMA InitMail == Init => MailInv
  <1> SUFFICES ASSUME Init PROVE MailInv
    OBVIOUS
  <1>1. size \in Nat
    BY MessagesAssumption DEF Init, MessagesAssumption
  <1> QED BY <1>1 DEF Init, MailInv, OnItsWay

\* What is derived from the call stays as long as the call does.
LEMMA SameCall ==
  ASSUME call' = call
  PROVE  /\ Original' = Original /\ Count' = Count /\ Normalized' = Normalized
         /\ Files' = Files /\ Shifted' = Shifted
         /\ \A k : Taken(k)' = Taken(k) /\ TakenNames(k)' = TakenNames(k)
         /\ \A i : Wanted(i)' = Wanted(i)
  <1>1. Original' = Original
    BY DEF Original
  <1>2. Count' = Count /\ Normalized' = Normalized
    BY <1>1 DEF Count, Normalized
  <1> QED BY <1>1, <1>2 DEF Files, Shifted, Taken, TakenNames, Wanted

\* The attachment to be copied.
LEMMA AtNext ==
  ASSUME MailInv, pc = "copy", next <= Len(mail.attachments)
  PROVE  /\ next \in 1..Count /\ Count \in Nat
         /\ mail.attachments[next].path = Files[next]
         /\ Basename(mail.attachments[next]) = Basename(Original.attachments[next])
  <1>1. call \in Calls /\ mail.attachments = Taken(next) /\ next \in 1..(Count + 1)
    BY DEF MailInv, OnItsWay
  <1>2. Len(Taken(next)) = Count /\ Count \in Nat
    BY <1>1, TakenTypes, OriginalFiles
  <1>3. next \in 1..Count
    BY <1>1, <1>2
  <1> QED BY <1>1, <1>2, <1>3, SameBasename

LEMMA MailKept == MailInv /\ [Next]_vars => MailInv'
  <1> SUFFICES ASSUME MailInv, [Next]_vars PROVE MailInv'
    OBVIOUS
  <1>1. call \in Calls /\ call' = call /\ size' = size /\ size \in Nat
    BY DEF Next, vars, MAPISendMail, MAPISendDocuments, CopyAttachment, CopyFails,
           WriteMailToFile, CallerMovesOn, processFile, BuildFullMIME, MailInv
  <1>2. Count \in Nat
    BY <1>1, OriginalFiles
  <1>3. CASE MAPISendMail \/ MAPISendDocuments
    <2>1. pc = "call" /\ next = 1 /\ copies = {}
      BY <1>3 DEF MAPISendMail, MAPISendDocuments, MailInv
    <2>2. \/ pc' = "refused" /\ copies' = copies
          \/ pc' = "copy" /\ mail' = Original /\ next' = next /\ copies' = copies
      BY <1>3 DEF MAPISendMail, MAPISendDocuments, Refuse, Original
    <2> QED BY <1>1, <1>2, <2>1, <2>2, SameCall, TakenNothing DEF MailInv, OnItsWay
  <1>4. CASE CopyAttachment
    <2>1. pc = "copy" /\ next <= Len(mail.attachments)
      BY <1>4 DEF CopyAttachment
    <2>2. /\ next \in 1..Count
          /\ mail.attachments[next].path = Files[next]
          /\ Basename(mail.attachments[next]) = Basename(Original.attachments[next])
      BY <2>1, AtNext
    <2>3. /\ mail = [recipients |-> Original.recipients, attachments |-> Taken(next)]
          /\ copies = TakenNames(next)
      BY <2>1 DEF MailInv, OnItsWay
    <2>4. CASE Files[next] = <<>>
      <3>1. next' = next + 1 /\ pc' = pc /\ mail' = mail /\ copies' = copies
        BY <1>4, <2>2, <2>4 DEF CopyAttachment
      <3>2. Taken(next + 1) = Taken(next) /\ TakenNames(next + 1) = TakenNames(next)
        BY <1>1, <2>2, <2>4, TakenOneMore
      <3>3. next + 1 \in 1..(Count + 1)
        BY <1>2, <2>2
      <3> QED BY <1>1, <2>1, <2>3, <3>1, <3>2, <3>3, SameCall DEF MailInv, OnItsWay
    <2>5. CASE Files[next] # <<>> /\ Basename(mail.attachments[next]) \in copies
      <3>1. pc' = "refused" /\ copies' = {}
        BY <1>4, <2>2, <2>5 DEF CopyAttachment
      <3> QED BY <1>1, <3>1 DEF MailInv, OnItsWay
    <2>6. CASE Files[next] # <<>> /\ Basename(mail.attachments[next]) \notin copies
      <3>1. /\ next' = next + 1 /\ pc' = pc
            /\ copies' = copies \cup {Basename(mail.attachments[next])}
            /\ mail' = [mail EXCEPT !.attachments[next].from = "queue"]
        BY <1>4, <2>2, <2>6 DEF CopyAttachment
      <3>2. mail' = [recipients  |-> Original.recipients,
                     attachments |-> [Taken(next) EXCEPT ![next].from = "queue"]]
        BY <2>3, <3>1
      <3>3. /\ Taken(next + 1) = [Taken(next) EXCEPT ![next].from = "queue"]
            /\ TakenNames(next + 1) =
                 TakenNames(next) \cup {Basename(Original.attachments[next])}
        BY <1>1, <2>2, <2>6, TakenOneMore
      <3>4. next + 1 \in 1..(Count + 1)
        BY <1>2, <2>2
      <3> QED BY <1>1, <2>1, <2>2, <2>3, <3>1, <3>2, <3>3, <3>4, SameCall
              DEF MailInv, OnItsWay
    <2> QED BY <2>4, <2>5, <2>6
  <1>5. CASE CopyFails
    BY <1>1, <1>5 DEF CopyFails, MailInv, OnItsWay
  <1>6. CASE WriteMailToFile
    <2>1. /\ pc = "copy" /\ next > Len(mail.attachments) /\ mail' = mail /\ next' = next
          /\ \/ pc' = "queued" /\ copies' = copies
             \/ pc' = "refused" /\ copies' = {}
      BY <1>6 DEF WriteMailToFile
    <2>2. next = Count + 1
      <3>1. mail.attachments = Taken(next) /\ next \in 1..(Count + 1)
        BY <2>1 DEF MailInv, OnItsWay
      <3>2. next > Count
        BY <1>1, <2>1, <3>1, TakenTypes
      <3> QED BY <1>2, <3>1, <3>2
    <2> QED BY <1>1, <2>1, <2>2, SameCall DEF MailInv, OnItsWay
  <1>7. CASE CallerMovesOn \/ UNCHANGED vars
    <2>1. UNCHANGED <<pc, mail, next, copies>>
      BY <1>7 DEF CallerMovesOn, vars
    <2> QED BY <1>1, <2>1, SameCall DEF MailInv, ValidateMailMessage
  <1>8. CASE processFile
    <2>1. /\ pc = "queued" /\ next' = next /\ copies' = copies
          /\ mail = [recipients |-> Original.recipients, attachments |-> Taken(next)]
      BY <1>8 DEF processFile, MailInv, OnItsWay
    <2>2. /\ ValidateMailMessage(Normalized) =>
               pc' = "row" /\ mail' = [mail EXCEPT !.recipients = Normalized]
          /\ ~ValidateMailMessage(Normalized) => pc' = "rejected" /\ mail' = mail
      BY <1>8, <2>1 DEF processFile, Normalized
    <2>3. ValidateMailMessage(Normalized)' <=> ValidateMailMessage(Normalized)
      BY <1>1, SameCall DEF ValidateMailMessage
    <2> QED BY <1>1, <2>1, <2>2, <2>3, SameCall DEF MailInv, OnItsWay
  <1>9. CASE BuildFullMIME
    <2>1. /\ pc = "row" /\ pc' \in {"drafted", "failed"}
          /\ next' = next /\ copies' = copies /\ mail' = mail
      BY <1>9 DEF BuildFullMIME
    <2>2. ValidateMailMessage(Normalized)' <=> ValidateMailMessage(Normalized)
      BY <1>1, SameCall DEF ValidateMailMessage
    <2> QED BY <1>1, <2>1, <2>2, SameCall DEF MailInv, OnItsWay
  <1> QED BY <1>3, <1>4, <1>5, <1>6, <1>7, <1>8, <1>9 DEF Next

-----------------------------------------------------------------------------
(* Names in the directory.                                                 *)

LEMMA NamesFromMail == MailInv => SafeNames
  <1> SUFFICES ASSUME MailInv, NEW s \in copies
               PROVE  /\ SafeOnDisk(s) /\ ValidUtf8(s)
                      /\ NoTrailing(s) \/ Len(s) > MaxBasename - MaxCharacter
    BY DEF SafeNames
  <1>1. /\ call \in Calls /\ pc \in OnItsWay /\ copies = TakenNames(next)
        /\ next \in 1..(Count + 1)
    BY DEF MailInv
  <1>2. Count \in Nat /\ \A i \in 1..Count : Original.attachments[i] \in Copyable
    BY <1>1, OriginalFiles
  <1>3. PICK i \in 1..(next - 1) : s = Basename(Original.attachments[i])
    BY <1>1 DEF TakenNames
  <1>4. i \in 1..Count
    BY <1>1, <1>2
  <1> DEFINE a == Original.attachments[i]
  <1>5. a.filename \in Text /\ a.path \in Text
    BY <1>2, <1>4 DEF Copyable
  <1> HIDE DEF a
  <1>6. \E t \in Text : s = SanitizeFilename(t)
    BY <1>3, <1>5 DEF Basename, a
  <1> QED BY <1>6, SanitizedIsSafe

\* Whatever names and paths callers pass, of any length and kind, every name that
\* CopyAttachmentsForStem creates in a message's directory is one that
\* SanitizeFilename promises: nothing that leaves the directory, names a device, is
\* too long or ends within a character.
THEOREM NamesAreSafe == Spec => []SafeNames
  <1>1. Init => MailInv
    BY InitMail
  <1>2. MailInv /\ [Next]_vars => MailInv'
    BY MailKept
  <1>3. MailInv => SafeNames
    BY NamesFromMail
  <1> QED BY <1>1, <1>2, <1>3, PTL DEF Spec

-----------------------------------------------------------------------------
(* Recipients, as the draft has them.                                      *)

LEMMA NormalizedRecipient ==
  ASSUME call \in Calls, call.api = "SendMail", NEW i \in 1..Len(call.recipients)
  PROVE  LET r == call.recipients[i]
         IN  /\ Normalized[i].class = IF r.class = "other" THEN "to" ELSE r.class
             /\ Normalized[i].address \in {"none", "control", "plain"}
             /\ Normalized[i].address = "none" => ~Named(r)
             /\ Normalized[i].address = "control" => r.address = "control"
  <1> DEFINE r == call.recipients[i]
             c == ConvertRecipient(r)
  <1>1. r \in Recipient /\ Original.recipients[i] = c /\ i \in DOMAIN Original.recipients
    BY OriginalRecipients
  <1>2. Normalized[i] = normalizeAddress(c)
    BY <1>1 DEF Normalized
  <1>3. /\ c.class = IF r.class = "other" THEN "to" ELSE r.class
        /\ c.address = IF r.address = "none" /\ r.name = "email" THEN "plain" ELSE r.address
        /\ \E k, n, a : c = [class |-> k, name |-> n, address |-> a]
    BY <1>1, ConvertedRecipient
  <1>4. r.address \in {"none", "plain", "prefixed", "prefix", "control"}
    BY <1>1 DEF Recipient
  <1> HIDE DEF r, c
  <1>5. /\ normalizeAddress(c).class = c.class
        /\ normalizeAddress(c).address = IF c.address = "prefixed" THEN "plain"
                                         ELSE IF c.address = "prefix" THEN "none"
                                         ELSE c.address
    BY <1>3 DEF normalizeAddress
  <1>6. CASE r.address = "none" /\ r.name = "email"
    BY <1>2, <1>3, <1>5, <1>6 DEF r
  <1>7. CASE ~(r.address = "none" /\ r.name = "email")
    <2>1. c.address = r.address
      BY <1>3, <1>7
    <2>2. Normalized[i].address = "none" => ~Named(r)
      BY <1>2, <1>5, <1>7, <2>1 DEF Named
    <2> QED BY <1>2, <1>3, <1>4, <1>5, <2>1, <2>2 DEF r
  <1> QED BY <1>6, <1>7

LEMMA NormalizedDomain ==
  ASSUME call \in Calls, NEW i \in DOMAIN Normalized
  PROVE  /\ call.api = "SendMail" /\ i \in 1..Len(call.recipients)
         /\ call.recipients[i] \in ToSet(call.recipients)
  <1>1. i \in DOMAIN Original.recipients
    BY DEF Normalized
  <1> QED BY <1>1, OriginalRecipients DEF ToSet

-----------------------------------------------------------------------------
(* The draft.                                                              *)

\* What BuildFullMIME read is what the message still says.
DraftInv ==
  pc = "drafted" =>
    /\ draft = mail
    /\ \A i \in DOMAIN Normalized : validateHeaderAddress(Normalized[i])
    /\ \A i \in 1..Count : Files[i] # <<>>

\* Of a message whose copies are all made, what each step reads.
LEMMA AllCopied ==
  ASSUME MailInv, pc \in OnItsWay \ {"copy"}
  PROVE  /\ call \in Calls /\ size \in Nat /\ Count \in Nat
         /\ mail.attachments = Taken(Count + 1)
         /\ Len(mail.attachments) = Count /\ DOMAIN mail.attachments = 1..Count
         /\ \A i \in 1..Count :
              /\ mail.attachments[i].path = Files[i]
              /\ mail.attachments[i].filename = Original.attachments[i].filename
              /\ mail.attachments[i].from = IF Files[i] # <<>> THEN "queue" ELSE "caller"
         /\ mail.recipients = IF pc \in {"queued", "rejected"} THEN Original.recipients
                              ELSE Normalized
  <1>1. /\ call \in Calls /\ size \in Nat
        /\ mail = [recipients  |-> IF pc \in {"copy", "queued", "rejected"}
                                   THEN Original.recipients ELSE Normalized,
                   attachments |-> Taken(Count + 1)]
    BY DEF MailInv
  <1>2. Count \in Nat
    BY <1>1, OriginalFiles
  <1>3. Len(Taken(Count + 1)) = Count /\ DOMAIN Taken(Count + 1) = 1..Count
    BY <1>1, TakenTypes
  <1>4. \A i \in 1..Count :
          /\ Taken(Count + 1)[i].path = Files[i]
          /\ Taken(Count + 1)[i].filename = Original.attachments[i].filename
          /\ Taken(Count + 1)[i].from = IF i < Count + 1 /\ Files[i] # <<>>
                                        THEN "queue" ELSE "caller"
    BY <1>1, SameBasename
  <1>5. mail.attachments = Taken(Count + 1)
    BY <1>1
  <1> QED BY <1>1, <1>2, <1>3, <1>4, <1>5

LEMMA DraftKept == MailInv /\ DraftInv /\ [Next]_vars => DraftInv'
  <1> SUFFICES ASSUME MailInv, DraftInv, [Next]_vars, pc' = "drafted"
               PROVE  /\ draft' = mail' /\ call' = call
                      /\ \A i \in DOMAIN Normalized : validateHeaderAddress(Normalized[i])
                      /\ \A i \in 1..Count : Files[i] # <<>>
    BY SameCall DEF DraftInv, validateHeaderAddress
  <1>1. BuildFullMIME \/ CallerMovesOn \/ UNCHANGED vars
    BY DEF Next, MAPISendMail, MAPISendDocuments, Refuse, CopyAttachment, CopyFails,
           WriteMailToFile, processFile
  <1>2. CASE BuildFullMIME
    <2>1. /\ pc = "row" /\ call' = call /\ mail' = mail /\ draft' = mail
          /\ \A i \in DOMAIN mail.recipients : validateHeaderAddress(mail.recipients[i])
          /\ \A i \in DOMAIN mail.attachments : Readable(mail.attachments[i])
      BY <1>2 DEF BuildFullMIME
    <2>2. /\ mail.recipients = Normalized /\ DOMAIN mail.attachments = 1..Count
          /\ \A i \in 1..Count : mail.attachments[i].path = Files[i]
      BY <2>1, AllCopied DEF OnItsWay
    <2> QED BY <2>1, <2>2 DEF Readable
  <1>3. CASE CallerMovesOn \/ UNCHANGED vars
    BY <1>3 DEF CallerMovesOn, vars, DraftInv
  <1> QED BY <1>1, <1>2, <1>3

LEMMA DraftFromMail == MailInv /\ DraftInv => DraftIsTheMessage
  <1> SUFFICES ASSUME MailInv, DraftInv, pc = "drafted" PROVE DraftIsTheMessage
    BY DEF DraftIsTheMessage
  <1>1. /\ call \in Calls /\ draft = mail /\ ValidateMailMessage(Normalized)
        /\ \A i \in DOMAIN Normalized : validateHeaderAddress(Normalized[i])
        /\ \A i \in 1..Count : Files[i] # <<>>
    BY DEF MailInv, DraftInv
  <1>2. /\ mail.recipients = Normalized /\ Len(mail.attachments) = Count
        /\ \A i \in 1..Count :
              /\ mail.attachments[i].path = Files[i]
              /\ mail.attachments[i].filename = Original.attachments[i].filename
              /\ mail.attachments[i].from = "queue"
    BY <1>1, AllCopied DEF OnItsWay
  <1>3. /\ Count = Len(Files) /\ DOMAIN Files = 1..Count
        /\ \A i \in 1..Count : Original.attachments[i].filename = Wanted(i) \/ Shifted
    BY <1>1, OriginalFiles
  <1>4. ASSUME call.api = "SendMail"
        PROVE  /\ Len(Normalized) = Len(call.recipients)
               /\ \A i \in DOMAIN call.recipients :
                    /\ Normalized[i].address = "plain"
                    /\ Normalized[i].class = IF call.recipients[i].class = "other" THEN "to"
                                             ELSE call.recipients[i].class
    <2>1. /\ Len(call.recipients) \in Nat /\ DOMAIN call.recipients = 1..Len(call.recipients)
          /\ DOMAIN Original.recipients = 1..Len(call.recipients)
      BY <1>1, <1>4, OriginalRecipients
    <2>2. Normalized = [i \in 1..Len(call.recipients) |-> normalizeAddress(Original.recipients[i])]
      BY <2>1 DEF Normalized
    <2>3. Len(Normalized) = Len(call.recipients) /\ DOMAIN Normalized = 1..Len(call.recipients)
      <3>1. Normalized = [i \in 1..Len(call.recipients) |-> Normalized[i]]
        BY <2>2
      <3>2. \A i \in 1..Len(call.recipients) :
              Normalized[i] \in {Normalized[j] : j \in 1..Len(call.recipients)}
        OBVIOUS
      <3> QED BY <2>1, <3>1, <3>2, ListIsSeq
    <2>4. ASSUME NEW i \in 1..Len(call.recipients)
          PROVE  /\ Normalized[i].address = "plain"
                 /\ Normalized[i].class = IF call.recipients[i].class = "other" THEN "to"
                                          ELSE call.recipients[i].class
      <3>1. Normalized[i].address # "none" /\ Normalized[i].address # "control"
        BY <1>1, <2>3 DEF ValidateMailMessage, validateHeaderAddress
      <3> QED BY <1>1, <1>4, <3>1, NormalizedRecipient
    <2> QED BY <2>1, <2>3, <2>4
  <1> QED BY <1>1, <1>2, <1>3, <1>4 DEF DraftIsTheMessage

\* For any call of MAPISendMail or MAPISendDocuments, the draft that BuildFullMIME
\* writes has each recipient with a usable address under its class, and each file from
\* its copy, in order and under its name, whatever the caller did to its own files
\* after the call returned.
THEOREM DraftIsWhatWasSent == Spec => []DraftIsTheMessage
  <1>1. Init => MailInv /\ DraftInv
    BY InitMail DEF Init, DraftInv
  <1>2. MailInv /\ DraftInv /\ [Next]_vars => MailInv' /\ DraftInv'
    BY MailKept, DraftKept
  <1>3. MailInv /\ DraftInv => DraftIsTheMessage
    BY DraftFromMail
  <1> QED BY <1>1, <1>2, <1>3, PTL DEF Spec

-----------------------------------------------------------------------------
(* What fails.                                                             *)

LEMMA RefusedKept == MailInv /\ RefusedForCause /\ [Next]_vars => RefusedForCause'
  <1> SUFFICES ASSUME MailInv, RefusedForCause, [Next]_vars,
                      pc' \in {"refused", "rejected", "failed"}
               PROVE  RefusedForCause'
    BY DEF RefusedForCause
  <1>1. call \in Calls /\ call' = call /\ size' = size /\ size \in Nat
    BY DEF Next, vars, MAPISendMail, MAPISendDocuments, CopyAttachment, CopyFails,
           WriteMailToFile, CallerMovesOn, processFile, BuildFullMIME, MailInv
  <1>2. /\ Files' = Files /\ Count \in Nat /\ Count = Len(Files) /\ DOMAIN Files = 1..Count
    BY <1>1, SameCall, OriginalFiles
  <1>3. CASE MAPISendMail
    <2>1. /\ call.api = "SendMail"
          /\ Len(call.recipients) > MaxRecipients \/ Len(call.files) > MaxFiles
      BY <1>3 DEF MAPISendMail
    <2>2. Len(Files) = Len(call.files)
      <3>1. call.files \in Seq(Entry)
        BY <1>1, <2>1, CallTypes
      <3>2. Len(call.files) \in Nat /\ DOMAIN call.files = 1..Len(call.files)
        BY <3>1, LenProperties
      <3>3. DOMAIN Files = 1..Len(call.files)
        BY <2>1, <3>2 DEF Files
      <3>4. 1..Count = 1..Len(call.files)
        BY <1>2, <3>3
      <3>5. Count = Len(call.files)
        BY <1>2, <3>2, <3>4
      <3> QED BY <1>2, <3>5
    <2> QED BY <1>1, <1>2, <2>1, <2>2 DEF RefusedForCause
  <1>4. CASE MAPISendDocuments
    <2>1. call.api = "SendDocuments" /\ Files = SplitDelimited(call.paths)
      BY <1>4 DEF MAPISendDocuments, Files
    <2>2. Len(Files) \notin 1..MaxFiles
      BY <1>4, <2>1 DEF MAPISendDocuments
    <2>3. Len(Files) > MaxFiles \/ Len(Files) = 0
      BY <1>2, <2>2, MessagesAssumption DEF MessagesAssumption
    <2>4. Files \in Seq(Text)
      BY <1>1, <2>1, CallTypes, PiecesRemain
    <2>5. Len(Files) > MaxFiles \/ Files = <<>>
      BY <2>3, <2>4, EmptySeq
    <2> QED BY <1>1, <1>2, <2>1, <2>5 DEF RefusedForCause
  <1>5. CASE CopyAttachment
    <2>1. /\ pc = "copy" /\ next <= Len(mail.attachments) /\ mail' = mail
          /\ Basename(mail.attachments[next]) \in copies
      BY <1>5 DEF CopyAttachment
    <2>2. /\ next \in 1..Count
          /\ mail.attachments = Taken(next) /\ copies = TakenNames(next)
      BY <2>1, AtNext DEF MailInv, OnItsWay
    <2>3. PICK i \in 1..(next - 1) :
            Basename(mail.attachments[next]) = Basename(Original.attachments[i])
      BY <2>1, <2>2 DEF TakenNames
    <2>4. i \in 1..Count /\ i < next
      BY <1>2, <2>2
    <2>5. /\ Basename(mail.attachments[i]) = Basename(Original.attachments[i])
          /\ DOMAIN mail.attachments = 1..Count
      BY <1>1, <2>2, <2>4, SameBasename, TakenTypes
    <2>6. \E k, j \in DOMAIN mail.attachments :
            k < j /\ Basename(mail.attachments[k]) = Basename(mail.attachments[j])
      BY <2>2, <2>3, <2>4, <2>5
    <2> QED BY <2>1, <2>6 DEF RefusedForCause, Basename
  <1>6. CASE CopyFails \/ WriteMailToFile
    BY <1>6 DEF CopyFails, WriteMailToFile, RefusedForCause
  <1>7. CASE CallerMovesOn \/ UNCHANGED vars
    <2>1. UNCHANGED <<call, size, pc, mail, cause>>
      BY <1>7 DEF CallerMovesOn, vars
    <2> QED BY <1>2, <2>1 DEF RefusedForCause, Basename, Named
  <1>8. CASE processFile
    <2>1. pc = "queued" /\ mail.recipients = Original.recipients
      BY <1>8 DEF processFile, MailInv, OnItsWay
    <2>2. ~ValidateMailMessage(Normalized)
      BY <1>8, <2>1 DEF processFile, Normalized
    <2>3. PICK i \in DOMAIN Normalized : Normalized[i].address = "none"
      BY <2>2 DEF ValidateMailMessage
    <2>4. /\ call.api = "SendMail" /\ i \in 1..Len(call.recipients)
          /\ call.recipients[i] \in ToSet(call.recipients)
      BY <1>1, NormalizedDomain
    <2>5. ~Named(call.recipients[i])
      BY <1>1, <2>3, <2>4, NormalizedRecipient
    <2> QED BY <1>1, <2>4, <2>5 DEF RefusedForCause, Named
  <1>9. CASE BuildFullMIME
    <2>1. /\ pc = "row"
          /\ \/ \E i \in DOMAIN mail.recipients : ~validateHeaderAddress(mail.recipients[i])
             \/ \E i \in DOMAIN mail.attachments : ~Readable(mail.attachments[i])
             \/ ~(Len(mail.attachments) * size <= MaxSize)
      BY <1>9 DEF BuildFullMIME
    <2>2. /\ mail.recipients = Normalized
          /\ Len(mail.attachments) = Count /\ DOMAIN mail.attachments = 1..Count
          /\ \A i \in 1..Count :
               /\ mail.attachments[i].path = Files[i]
               /\ mail.attachments[i].from = IF Files[i] # <<>> THEN "queue" ELSE "caller"
      BY <2>1, AllCopied DEF OnItsWay
    <2>3. CASE \E i \in DOMAIN mail.recipients : ~validateHeaderAddress(mail.recipients[i])
      <3>1. PICK i \in DOMAIN Normalized : Normalized[i].address = "control"
        BY <2>2, <2>3 DEF validateHeaderAddress
      <3>2. /\ call.api = "SendMail" /\ i \in 1..Len(call.recipients)
            /\ call.recipients[i] \in ToSet(call.recipients)
        BY <1>1, NormalizedDomain
      <3>3. call.recipients[i].address = "control"
        BY <1>1, <3>1, <3>2, NormalizedRecipient
      <3> QED BY <1>1, <3>2, <3>3 DEF RefusedForCause
    <2>4. CASE \E i \in DOMAIN mail.attachments : ~Readable(mail.attachments[i])
      <3>1. PICK i \in 1..Count : Files[i] = <<>>
        BY <2>2, <2>4 DEF Readable
      <3>2. <<>> \in ToSet(Files)
        BY <1>2, <3>1 DEF ToSet
      <3> QED BY <1>2, <3>2 DEF RefusedForCause
    <2>5. CASE ~(Len(mail.attachments) * size <= MaxSize)
      <3>1. ~(Len(Files) * size <= MaxSize)
        BY <1>2, <2>2, <2>5
      <3>2. Len(Files) * size \in Nat /\ MaxSize \in Nat
        BY <1>1, <1>2, MessagesAssumption DEF MessagesAssumption
      <3>3. Len(Files) * size > MaxSize
        BY <3>1, <3>2
      <3> QED BY <1>1, <1>2, <3>3 DEF RefusedForCause
    <2> QED BY <2>1, <2>3, <2>4, <2>5
  <1> QED BY <1>3, <1>4, <1>5, <1>6, <1>7, <1>8, <1>9 DEF Next

\* A message that the interceptor refuses, the watcher rejects or BuildFullMIME fails
\* on gives a reason: the disk, an address, a limit, an entry without a file, or two
\* files under one sanitised name.  The caller's own moves are none.
THEOREM FailsForCauseOnly == Spec => []RefusedForCause
  <1>1. Init => MailInv /\ RefusedForCause
    BY InitMail DEF Init, RefusedForCause
  <1>2. MailInv /\ RefusedForCause /\ [Next]_vars => MailInv' /\ RefusedForCause'
    BY MailKept, RefusedKept
  <1> QED BY <1>1, <1>2, PTL DEF Spec
=============================================================================
