---------------------------- MODULE OrderedCodec ----------------------------
(***************************************************************************)
(* artmap/codec.go: how Ordered turns a key of any cmp.Ordered type into a *)
(* byte string, and back.                                                  *)
(*                                                                         *)
(* A numeric key is the bit pattern it has in memory, a number below       *)
(* Size(its size in bytes); a string is its bytes.  A byte has ByteSize    *)
(* values, so that TLC can go through all keys of eight bytes.             *)
(***************************************************************************)
EXTENDS Integers, ByteStrings

CONSTANTS
  ByteSize,   \* the values of a byte: 256 in Go
  Infinity,   \* the magnitude bits of +Inf in a float of each size
  Strings     \* the strings used as keys

\* A word has a sign bit: as many patterns with it as without.
ASSUME ByteAssumption == ByteSize \in Nat \ {0} /\ ByteSize = 2 * (ByteSize \div 2)
ASSUME StringsAssumption == Strings \subseteq Seq(0 .. ByteSize - 1)

\* The numbers of as many bytes as a word may have.
Power ==
  LET power[bytes \in 0 .. 8] == IF bytes = 0 THEN 1 ELSE ByteSize * power[bytes - 1]
  IN  [bytes \in 0 .. 8 |-> power[bytes]]

Size(width) == Power[width]
Half(width) == Size(width) \div 2

(***************************************************************************)
(* The types of cmp.Ordered.  Go gives int, uint and uintptr the size of a *)
(* machine word; the other kinds name their size.                          *)
(***************************************************************************)
KeyKind(family, width) == [family |-> family, width |-> width]
kindString == KeyKind("string", 0)

Sized ==
  [Uint8   |-> KeyKind("uint", 1),  Int8   |-> KeyKind("int", 1),
   Uint16  |-> KeyKind("uint", 2),  Int16  |-> KeyKind("int", 2),
   Uint32  |-> KeyKind("uint", 4),  Int32  |-> KeyKind("int", 4),
   Uint64  |-> KeyKind("uint", 8),  Int64  |-> KeyKind("int", 8),
   Float32 |-> KeyKind("float", 4), Float64 |-> KeyKind("float", 8)]

WordTypes == {"Uint", "Uintptr", "Int"}

SizesOf(reflect) ==
  CASE reflect \in DOMAIN Sized -> {Sized[reflect].width}
    [] reflect \in WordTypes    -> {4, 8}
    [] reflect = "String"       -> {16}

KeyTypes ==
  UNION {{[reflect |-> r, size |-> s] : s \in SizesOf(r)} :
           r \in DOMAIN Sized \cup WordTypes \cup {"String"}}

Family(type) ==
  CASE type.reflect \in DOMAIN Sized       -> Sized[type.reflect].family
    [] type.reflect \in {"Uint", "Uintptr"} -> "uint"
    [] type.reflect = "Int"                -> "int"
    [] type.reflect = "String"             -> "string"

KeysOf(type) ==
  IF Family(type) = "string" THEN Strings ELSE 0 .. Size(type.size) - 1
-----------------------------------------------------------------------------
(***************************************************************************)
(* cmp.Compare.  Two's complement, and IEEE 754 with a sign bit before the *)
(* magnitude; NaN comes before every number and the two zeros are equal.   *)
(***************************************************************************)
Magnitude(type, key) == key % Half(type.size)
IsNaN(type, key) ==
  Family(type) = "float" /\ Magnitude(type, key) > Infinity[type.size]
IsZero(type, key) == Family(type) = "float" /\ Magnitude(type, key) = 0

Number(type, key) ==
  CASE Family(type) = "uint"  -> key
    [] Family(type) = "int"   ->
         IF key < Half(type.size) THEN key ELSE key - Size(type.size)
    [] Family(type) = "float" ->
         IF key < Half(type.size) THEN key ELSE - Magnitude(type, key)

Before(type, a, b) ==
  \/ Family(type) = "string" /\ Less(a, b)
  \/ Family(type) # "string" /\ IsNaN(type, a) /\ ~ IsNaN(type, b)
  \/ /\ Family(type) # "string" /\ ~ IsNaN(type, a) /\ ~ IsNaN(type, b)
     /\ Number(type, a) < Number(type, b)
-----------------------------------------------------------------------------
\* The kind of encoding New chooses for K.
PickKind(type) ==
  CASE type.reflect = "String" -> kindString
    [] type.reflect \in DOMAIN Sized -> Sized[type.reflect]
    [] type.reflect \in {"Uint", "Uintptr"} ->
         KeyKind("uint", IF type.size = 8 THEN 8 ELSE 4)
    [] type.reflect = "Int" ->
         KeyKind("int", IF type.size = 8 THEN 8 ELSE 4)

\* bits ^ 0x80..., and ^bits, on words of the given width.
FlipSign(bits, width) == (bits + Half(width)) % Size(width)
Complement(bits, width) == Size(width) - 1 - bits

BigEndian(bits, width) ==
  [i \in 1 .. width |-> (bits \div Power[width - i]) % ByteSize]

FromBigEndian(b) ==
  LET read[i \in 0 .. Len(b)] ==
        IF i = 0 THEN 0 ELSE read[i - 1] * ByteSize + b[i]
  IN  read[Len(b)]

\* The word that sorts as the key does, and the key back from it.
FloatWordSignOnly(bits, width) == FlipSign(bits, width)

FloatWord(bits, width) ==
  IF bits >= Half(width) THEN Complement(bits, width) ELSE FlipSign(bits, width)

FloatBitsSwapped(word, width) ==
  IF word < Half(width) THEN FlipSign(word, width) ELSE Complement(word, width)

FloatBits(word, width) ==
  IF word >= Half(width) THEN FlipSign(word, width) ELSE Complement(word, width)

Word(kind, bits) ==
  CASE kind.family = "uint"  -> bits
    [] kind.family = "int"   -> FlipSign(bits, kind.width)
    [] kind.family = "float" -> FloatWord(bits, kind.width)

Bits(kind, word) ==
  CASE kind.family = "uint"  -> word
    [] kind.family = "int"   -> FlipSign(word, kind.width)
    [] kind.family = "float" -> FloatBits(word, kind.width)

(***************************************************************************)
(* encode and the decoders.  encode reads kind.width bytes through an      *)
(* unsafe pointer to the key: the low bytes, if the key has more.          *)
(***************************************************************************)
Encode(kind, key) ==
  IF kind = kindString THEN key
  ELSE BigEndian(Word(kind, key % Size(kind.width)), kind.width)

Decode(kind, b) ==
  IF kind = kindString THEN b ELSE Bits(kind, FromBigEndian(b))
-----------------------------------------------------------------------------
(***************************************************************************)
(* The types whose encoding keeps the order of all their keys, and those   *)
(* whose decoding gives every key back.  Between the zeros, which          *)
(* cmp.Compare holds equal, and among NaNs, which it does not tell apart,  *)
(* encoded keys are still told apart: -0.0 comes before +0.0.              *)
(***************************************************************************)
OrderKeeping ==
  {type \in KeyTypes :
     LET coded == {[key |-> k, code |-> Encode(PickKind(type), k)] : k \in KeysOf(type)}
     IN  \A a, b \in coded :
           IF IsNaN(type, a.key) \/ IsNaN(type, b.key)
           THEN a.key # b.key => a.code # b.code
           ELSE Less(a.code, b.code) <=>
                  \/ Before(type, a.key, b.key)
                  \/ IsZero(type, a.key) /\ IsZero(type, b.key) /\ b.key < a.key}

RoundTripping ==
  {type \in KeyTypes :
     \A k \in KeysOf(type) :
       Decode(PickKind(type), Encode(PickKind(type), k)) = k}
=============================================================================
