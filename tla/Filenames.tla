------------------------------ MODULE Filenames ------------------------------
(***************************************************************************)
(* Names of attachments in the interceptor (message_converter.cpp): a name *)
(* is a sequence of bytes, of which only the kind matters.                 *)
(***************************************************************************)
EXTENDS Naturals, Sequences, SequencesExt

CONSTANTS
  MaxBasename,  (* kMaxSanitizedBasename: 128 in the code                  *)
  MaxExtension, (* longest extension, with its dot, that a cut keeps: 12   *)
  MaxCharacter  (* bytes of the longest character of UTF-8: 4              *)

ASSUME FilenamesAssumption ==
  /\ MaxExtension \in Nat \ {0} /\ MaxCharacter \in Nat \ {0}
  /\ MaxBasename \in Nat /\ MaxBasename > MaxExtension

\* An ordinary byte, all that spells a DOS device name, a dot, a space, a
\* separator, a control or illegal character, and of a character of several bytes
\* the first and those behind it.
Bytes == {"x", "con", ".", "space", "/", "?", "lead", "cont"}

\* Whole characters only, as the conversions to UTF-8 return them.
ValidUtf8(s) ==
  /\ \A i \in DOMAIN s : s[i] = "lead" => i < Len(s) /\ s[i + 1] = "cont"
  /\ \A i \in DOMAIN s : s[i] = "cont" => i > 1 /\ s[i - 1] \in {"lead", "cont"}
  /\ \A i \in DOMAIN s :
       i + MaxCharacter - 1 <= Len(s) => \E j \in i..(i + MaxCharacter - 1) : s[j] # "cont"

Text == {s \in Seq(Bytes) : ValidUtf8(s)}

\* What is left when nothing trustworthy is.
Attachment == <<"attachment">>

LastPos(s, byte) == SelectLastInSeq(s, LAMBDA b : b = byte)

FilenameFromPath(path) ==
  LET slash == LastPos(path, "/") IN
  IF slash \in 1..(Len(path) - 1) THEN SubSeq(path, slash + 1, Len(path)) ELSE path

IsReservedDeviceName(s) ==
  s # <<>> /\ s[1] = "con" /\ (Len(s) = 1 \/ s[2] = ".")

\* No trailing dots and spaces, then no leading spaces.
Trim(s) ==
  LET front == SubSeq(s, 1, SelectLastInSeq(s, LAMBDA b : b \notin {".", "space"})) IN
  IF front = <<>> THEN <<>>
  ELSE SubSeq(front, SelectInSeq(front, LAMBDA b : b # "space"), Len(front))

\* Mutant: the cut may fall inside a character.
CutAnywhere(s) == IF Len(s) <= MaxBasename THEN s ELSE SubSeq(s, 1, MaxBasename)

\* Keep the extension, never half a character.
Cut(s) ==
  IF Len(s) <= MaxBasename THEN s
  ELSE LET dot  == LastPos(s, ".")
           ext  == IF dot > 1 /\ Len(s) - dot + 1 <= MaxExtension
                   THEN SubSeq(s, dot, Len(s)) ELSE <<>>
           room == MaxBasename - Len(ext)
           keep == CHOOSE k \in 0..room :
                     /\ k = 0 \/ s[k + 1] # "cont"
                     /\ \A j \in (k + 1)..room : s[j + 1] = "cont"
       IN SubSeq(s, 1, keep) \o ext

SanitizeFilename(nameOrPath) ==
  LET leaf == SubSeq(nameOrPath, LastPos(nameOrPath, "/") + 1, Len(nameOrPath))
      safe == [i \in DOMAIN leaf |-> IF leaf[i] = "?" THEN "x" ELSE leaf[i]]
      out  == Cut(Trim(safe))
  IN IF out \in {<<>>, <<".">>, <<".", ".">>} \/ IsReservedDeviceName(out)
     THEN Attachment ELSE out

-----------------------------------------------------------------------------
(* What message_converter.h guarantees of a sanitised name.                *)

NoTrailing(s) == Last(s) \notin {".", "space"}

SafeOnDisk(s) ==
  /\ s # <<>>
  /\ ToSet(s) \cap {"/", "?"} = {}
  /\ ~IsReservedDeviceName(s)
  /\ Len(s) <= MaxBasename
=============================================================================
