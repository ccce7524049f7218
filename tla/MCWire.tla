------------------------------- MODULE MCWire -------------------------------
(***************************************************************************)
(* The formats on the wire: one connection of the TCP transport, the HTTP  *)
(* transport, one chip, and the codecs over sets of inputs with every      *)
(* boundary in them.  A behaviour is about one; `part' says which.         *)
(***************************************************************************)
EXTENDS IsoTcp, Iso20022Http, Iso8583Codec, EmvChip

VARIABLES
    part,   \* "link", "http", "chip" or "codec"
    input   \* the input of a codec

vars == <<linkVars, httpVars, chipVars, part, input>>

NoInput == [what |-> "none"]

-----------------------------------------------------------------------------
(* Bodies of no, one, two and three bytes; the first byte is the MTI: 1    *)
(* network management, 2 a withdrawal.                                     *)
MCBodies == {<<>>, <<1>>, <<2, 1>>, <<1, 2, 0>>}

(* Amounts below and above zero; a missing one counts as zero.             *)
MCSums8 == {-1, 2}

MCApdus == {
    <<0, 164, 4, 0, 14>> \o PSE_NAME,
    <<0, 164, 4, 0, 7, 160, 0, 0, 0, 3, 16, 16, 0>>,
    <<0, 164, 4, 0, 4, 160, 0, 0, 0>>,
    <<0, 164, 4, 0, 7, 160, 0>>,
    <<128, 168, 0, 0, 2, 131, 0, 0>>,
    <<0, 178, 2, 12, 0>>,
    <<128, 174, 128, 0>>,
    <<0, 192, 0>>,
    <<0, 192, 0, 0>> }

(* Bitmaps: the fields at the ends of nibbles and of the bitmap.           *)
Bitmaps == {[what |-> "bitmap", fields |-> s] : s \in SUBSET {1, 2, 4, 5, 8, 33, 61, 64, 65}}

Chars(c, n) == [i \in 1 .. n |-> c]

(* Messages: a length-prefixed field at the lengths where the prefix or    *)
(* the limit changes, a fixed and a numeric one with every short text, and *)
(* a long one behind them; each present or not.                            *)
Pans == {Chars(4, n) : n \in {0, 9, 10, 19, 20}}
Numbers == UNION {[1 .. n -> {1, 7, 10}] : n \in 0 .. 4}
Codes == UNION {[1 .. n -> {0, Space}] : n \in 0 .. 3}
Extras == {Chars(1, n) : n \in {0, 99, 100, 120, 121}}

FieldSets ==
    { (2 :> p) @@ (22 :> n) @@ (39 :> c) : p \in Pans, n \in Numbers, c \in Codes }
       \union { (39 :> c) @@ (54 :> e) : c \in Codes, e \in Extras }
       \union { (22 :> n) @@ (54 :> e) : n \in Numbers, e \in Extras }
       \union { (2 :> p) @@ (54 :> e) : p \in Pans, e \in Extras }
       \union { (54 :> e) : e \in Extras }

Messages == {[what |-> "message", mti |-> <<0, 2, 0, 0>>, fields |-> fields] : fields \in FieldSets}

(* TLV: one element, or a template of two, around one- and two-byte tags   *)
(* and the lengths where the form of the length changes.                   *)
Elements == [tag : {<<90>>, <<159, 38>>}, length : {0, 1, 127, 128, 255, 256}]
Tlvs == {[what |-> "tlv", template |-> t, children |-> c] :
            t \in {<<111>>, <<119>>}, c \in {<<x>> : x \in Elements} \union (Elements \X Elements)}

(* APDUs of the four cases.                                                *)
Commands == {[what |-> "apdu", data |-> Chars(9, n), le |-> le, hasLe |-> h] :
                n \in {0, 1, 2, 255}, le \in {0, 2}, h \in BOOLEAN}

Inputs == Bitmaps \union Messages \union Tlvs \union Commands

-----------------------------------------------------------------------------
Init ==
    /\ HttpInit /\ ChipInit
    /\ \/ part \in {"http", "chip"} /\ LinkOff /\ input = NoInput
       \/ part = "link" /\ LinkInit /\ input = NoInput
       \/ part = "codec" /\ LinkOff /\ input \in Inputs

Next ==
    \/ part = "link" /\ LinkNext /\ UNCHANGED <<httpVars, chipVars, part, input>>
    \/ part = "http" /\ HttpNext /\ UNCHANGED <<linkVars, chipVars, part, input>>
    \/ part = "chip" /\ ChipNext /\ UNCHANGED <<linkVars, httpVars, part, input>>

Spec == Init /\ [][Next]_vars /\ LinkFairness /\ HttpFairness

-----------------------------------------------------------------------------
(* A bitmap read back names the fields it was written for; a field beyond  *)
(* 64 is refused.                                                          *)
BitmapSurvives(fields) ==
    LET bitmap == fieldsToBitmap(fields) IN
    IF 65 \in fields THEN ~ bitmap.ok
    ELSE bitmap.ok /\ bitmapToFields(bitmap.hex) = fields

(* decodeMessage gives every value back as the comment on its kind says.   *)
MessageSurvives(message, wire) ==
    LET back == decodeMessage(wire) IN
    /\ back.ok /\ back.mti = message.mti
    /\ DOMAIN back.fields = DOMAIN message.fields
    /\ \A f \in DOMAIN back.fields : Means(FIELDS[f], message.fields[f], back.fields[f])

(* A message cut short anywhere, also inside a length, is never taken for  *)
(* a shorter one, nor one with a character too many.                       *)
CutMessageRefused(wire) ==
    /\ \A n \in 0 .. Len(wire) - 1 : ~ decodeMessage(SubSeq(wire, 1, n)).ok
    /\ ~ decodeMessage(Append(wire, 0)).ok

(* encodeMessage refuses a message exactly when a length-prefixed value is *)
(* too long; every other one is read back as it was written, and refused   *)
(* when it was cut short or is followed by one more character.             *)
MessageRoundTrip ==
    /\ input.what = "bitmap" => BitmapSurvives(input.fields)
    /\ input.what = "message" =>
          LET text == encodeMessage(input)
              long == \E f \in DOMAIN input.fields : TooLong(FIELDS[f], input.fields[f])
          IN  IF long THEN ~ text.ok
              ELSE text.ok /\ MessageSurvives(input, text.wire) /\ CutMessageRefused(text.wire)

(* decodeTlv gives back the template and its elements, whatever the number *)
(* of bytes their lengths take.                                            *)
TlvSurvives(template, children, text) ==
    LET tree == decodeTlv(text) IN
    /\ tree.ok /\ Len(tree.nodes) = 1
    /\ tree.nodes[1].tag = template
    /\ Len(tree.nodes[1].children) = Len(children)
    /\ \A i \in DOMAIN children :
          LET node == tree.nodes[1].children[i] IN
          node.tag = children[i].tag /\ node.value = Chars(7, children[i].length)

CutTlvRefused(text) == \A n \in 1 .. Len(text) - 1 : ~ decodeTlv(SubSeq(text, 1, n)).ok

(* parseApdu tells the four cases of a command apart by its length, and    *)
(* refuses data that is cut short.                                         *)
ApduSurvives(command) ==
    LET n == Len(command.data)
        bytes == <<0, 164, 4, 0>> \o (IF n = 0 THEN <<>> ELSE <<n>> \o command.data)
                    \o (IF command.hasLe THEN <<command.le>> ELSE <<>>)
        apdu == parseApdu(bytes)
    IN  /\ apdu.ok /\ apdu.data = command.data
        /\ apdu.le = IF command.hasLe THEN command.le ELSE 0
        /\ n > 1 => ~ parseApdu(SubSeq(bytes, 1, 4 + n)).ok

(* What the card and the terminal write each other is read back: a TLV     *)
(* template with its elements and a command with its data; a TLV string    *)
(* cut short anywhere is refused.                                          *)
CardDataRoundTrip ==
    /\ input.what = "tlv" =>
          LET text == encodeTemplate(input.template,
                        [i \in DOMAIN input.children |->
                            encodeTlv(input.children[i].tag, Chars(7, input.children[i].length))])
          IN  TlvSurvives(input.template, input.children, text) /\ CutTlvRefused(text)
    /\ input.what = "apdu" => ApduSurvives(input)

(* What one side writes the other reads back, in both codecs.              *)
CodecsRoundTrip == MessageRoundTrip /\ CardDataRoundTrip

(* Both transports answer every message while the connection is there.     *)
EveryRequestAnswered == EveryFrameAnswered /\ EveryPostAnswered
=============================================================================
