---------------------------- MODULE Iso8583Codec ----------------------------
(***************************************************************************)
(* The ISO 8583 message codec of packages/iso8583: MTI, primary bitmap in  *)
(* hexadecimal, then the fields in ascending order.                        *)
(*                                                                         *)
(* A character is a number: 0..9 are the digits, 10..15 the letters A..F   *)
(* and Space the space.  Where the code throws, the result has ok = FALSE; *)
(* NaN is the number parseInt returns for no digits, which no comparison   *)
(* and no sum makes a number again.                                        *)
(***************************************************************************)
EXTENDS Integers, Sequences, FiniteSets, SequencesExt, TLC

Space == 32
NaN == -1
Digit == 0 .. 9

BadMessage == [ok |-> FALSE]

FIELDS ==
    (2 :> [kind |-> "llvar", length |-> 19]) @@
    (54 :> [kind |-> "lllvar", length |-> 120]) @@
    [f \in {3, 11, 12} |-> [kind |-> "numeric", length |-> 6]] @@
    (4 :> [kind |-> "numeric", length |-> 12]) @@
    (7 :> [kind |-> "numeric", length |-> 10]) @@
    [f \in {13, 14} |-> [kind |-> "numeric", length |-> 4]] @@
    [f \in {22, 49, 70} |-> [kind |-> "numeric", length |-> 3]] @@
    (37 :> [kind |-> "fixed", length |-> 12]) @@
    (38 :> [kind |-> "fixed", length |-> 6]) @@
    (39 :> [kind |-> "fixed", length |-> 2]) @@
    (41 :> [kind |-> "fixed", length |-> 8]) @@
    (42 :> [kind |-> "fixed", length |-> 15]) @@
    (52 :> [kind |-> "fixed", length |-> 16])

-----------------------------------------------------------------------------
(* The string methods used: slice with both ends, padding, trimEnd.        *)
Slice(s, from, to) == SubSeq(s, from + 1, IF to < Len(s) THEN to ELSE Len(s))
Pad(n, c) == [i \in 1 .. (IF n > 0 THEN n ELSE 0) |-> c]
PadEnd(s, n, c) == s \o Pad(n - Len(s), c)
PadStart(s, n, c) == Pad(n - Len(s), c) \o s
LastChars(s, n) == SubSeq(s, (IF Len(s) > n THEN Len(s) - n ELSE 0) + 1, Len(s))

TrimEnd(s) ==
    LET solid == {i \in DOMAIN s : s[i] # Space}
    IN  SubSeq(s, 1, IF solid = {} THEN 0 ELSE Max(solid))

DigitsOnly(s) == SelectSeq(s, LAMBDA c : c \in Digit)
Value(digits) == FoldLeft(LAMBDA n, d : 10 * n + d, 0, digits)

(* String(n) and parseInt(s, 10): the leading digits, or NaN.              *)
Decimal(n) == IF n < 10 THEN <<n>>
              ELSE IF n < 100 THEN <<n \div 10, n % 10>>
              ELSE <<n \div 100, (n \div 10) % 10, n % 10>>

ParseInt(s) ==
    LET run == {k \in 1 .. Len(s) : \A i \in 1 .. k : s[i] \in Digit}
    IN  IF run = {} THEN NaN ELSE Value(SubSeq(s, 1, Max(run)))

-----------------------------------------------------------------------------
(* Nibble i holds the fields 4i-3 .. 4i, the lowest in its highest bit.    *)
fieldsToBitmap(fields) ==
    IF \E f \in fields : f < 1 \/ f > 64 THEN BadMessage
    ELSE [ok |-> TRUE,
          hex |-> [i \in 1 .. 16 |->
                    FoldLeft(LAMBDA n, b : 2 * n + (IF (4 * i - 3 + b) \in fields THEN 1 ELSE 0),
                             0, <<0, 1, 2, 3>>)]]

bitmapToFields(hex) ==
    {f \in 1 .. 64 :
        (hex[((f - 1) \div 4) + 1] \div (2 ^ (3 - ((f - 1) % 4)))) % 2 = 1}

-----------------------------------------------------------------------------
(* Variant: a number that is too long keeps its first digits.              *)
encodeField_KeepsFirst(def, raw) ==
    CASE def.kind = "fixed" ->
            [ok |-> TRUE, text |-> Slice(PadEnd(raw, def.length, Space), 0, def.length)]
      [] def.kind = "numeric" ->
            [ok |-> TRUE, text |-> Slice(PadStart(DigitsOnly(raw), def.length, 0), 0, def.length)]
      [] def.kind \in {"llvar", "lllvar"} /\ Len(raw) > def.length -> BadMessage
      [] OTHER ->
            [ok |-> TRUE,
             text |-> PadStart(Decimal(Len(raw)), IF def.kind = "llvar" THEN 2 ELSE 3, 0) \o raw]

(* The text of a field; a length-prefixed one that is too long throws.     *)
encodeField(def, raw) ==
    CASE def.kind = "fixed" ->
            [ok |-> TRUE, text |-> Slice(PadEnd(raw, def.length, Space), 0, def.length)]
      [] def.kind = "numeric" ->
            [ok |-> TRUE,
             text |-> LastChars(PadStart(DigitsOnly(raw), def.length, 0), def.length)]
      [] def.kind \in {"llvar", "lllvar"} /\ Len(raw) > def.length -> BadMessage
      [] OTHER ->
            [ok |-> TRUE,
             text |-> PadStart(Decimal(Len(raw)), IF def.kind = "llvar" THEN 2 ELSE 3, 0) \o raw]

(* The value, and where the next field begins: past the end of the wire    *)
(* when it is cut short, NaN when a length has no digits.                  *)
decodeField(def, wire, start) ==
    LET prefix == CASE def.kind = "llvar" -> 2 [] def.kind = "lllvar" -> 3 [] OTHER -> 0
        len == IF prefix = 0 THEN def.length ELSE ParseInt(Slice(wire, start, start + prefix))
        text == Slice(wire, start + prefix, start + prefix + len)
    IN  IF start = NaN \/ len = NaN THEN [value |-> <<>>, next |-> NaN]
        ELSE [value |-> IF def.kind = "fixed" THEN TrimEnd(text) ELSE text,
              next |-> start + prefix + len]

-----------------------------------------------------------------------------
(* A message is [mti, fields], fields a function from the numbers present. *)
encodeMessage(msg) ==
    LET numbers == SetToSortSeq(DOMAIN msg.fields, <)
        bitmap == fieldsToBitmap(DOMAIN msg.fields)
        parts == [i \in DOMAIN numbers |-> encodeField(FIELDS[numbers[i]], msg.fields[numbers[i]])]
    IN  IF \/ ~ bitmap.ok
           \/ \E i \in DOMAIN numbers : numbers[i] \notin DOMAIN FIELDS \/ ~ parts[i].ok
        THEN BadMessage
        ELSE [ok |-> TRUE,
              wire |-> FoldLeft(LAMBDA wire, part : wire \o part.text, msg.mti \o bitmap.hex, parts)]

decodeMessage(wire) ==
    LET numbers == SetToSortSeq(bitmapToFields(Slice(wire, 4, 20)), <)
        parse == FoldLeft(LAMBDA done, f :
                            LET one == decodeField(FIELDS[f], wire, done.cursor)
                            IN  [out |-> done.out @@ (f :> one.value), cursor |-> one.next],
                          [out |-> <<>>, cursor |-> 20], numbers)
    IN  IF \/ Len(wire) < 20
           \/ \E i \in DOMAIN numbers : numbers[i] \notin DOMAIN FIELDS
           \/ parse.cursor # Len(wire)
        THEN BadMessage
        ELSE [ok |-> TRUE, mti |-> Slice(wire, 0, 4), fields |-> parse.out]

-----------------------------------------------------------------------------
(***************************************************************************)
(* What the comments of fields.ts say of each kind, without the codec's    *)
(* own operators.                                                          *)
(***************************************************************************)
Means(def, raw, value) ==
    CASE def.kind = "fixed" ->
            /\ Len(value) <= def.length /\ IsPrefix(value, raw)
            /\ value # <<>> => Last(value) # Space
            /\ \A i \in Len(value) + 1 .. def.length : i \in DOMAIN raw => raw[i] = Space
      [] def.kind = "numeric" ->
            /\ Len(value) = def.length
            /\ Value(value) = Value(DigitsOnly(raw)) % (10 ^ def.length)
      [] OTHER -> value = raw

TooLong(def, raw) == def.kind \in {"llvar", "lllvar"} /\ Len(raw) > def.length
=============================================================================
