----------------------------- MODULE ThetaCodec -----------------------------
(***************************************************************************)
(* The Theta codec (packages/theta-codec): glyph strings, the Theta        *)
(* indices they stand for, base-14 digits, bytes, base32 text and the      *)
(* eleven-bit indices of BIP-39.  Every definition is a function of its    *)
(* arguments.                                                              *)
(*                                                                         *)
(* A character is a name, a glyph or token a sequence of characters, a     *)
(* glyph string the sequence of its tokens.  A number of any size is kept  *)
(* as its digits; a 32-bit word of the base32 encoder as its bits.         *)
(***************************************************************************)
EXTENDS Integers, SequencesExt

\* The code throws.
Thrown == "thrown"

Digits == 0..13

-----------------------------------------------------------------------------
(* The tables *)

\* digitMap.
DigitMap == [d \in Digits |->
    CASE d = 0 -> <<<<"sun">>>>      [] d = 1 -> <<<<"beta">>>>
      [] d = 2 -> <<<<"kappa">>>>    [] d = 3 -> <<<<"oplus">>>>
      [] d = 4 -> <<<<"psi">>>>      [] d = 5 -> <<<<"theta">>>>
      [] d = 6 -> <<<<"lambda">>, <<"rho">>, <<"delta">>, <<"gamma">>, <<"phi">>, <<"xi">>>>
      [] d = 7 -> <<<<"arrow">>>>    [] d = 8 -> <<<<"hbar">>, <<"tau">>>>
      [] d = 9 -> <<<<"e", "minus">>>> [] d = 10 -> <<<<"female">>>>
      [] d = 11 -> <<<<"diamond">>>> [] d = 12 -> <<<<"fleur">>>>
      [] d = 13 -> <<<<"lozenge">>, <<"approx">>>>]

\* thetaMap.
ThetaIndices == 0..14
ThetaMap == [t \in ThetaIndices |->
    CASE t \in {0, 14} -> <<"sun">> [] t = 1 -> <<"kappa", "oplus">>
      [] t = 2 -> <<"beta">>        [] t = 3 -> <<"psi">>
      [] t = 4 -> <<"arrow">>       [] t = 5 -> <<"lozenge">>
      [] t = 6 -> <<"diamond">>     [] t = 7 -> <<"theta">>
      [] t = 8 -> <<"lambda">>      [] t = 9 -> <<"oplus">>
      [] t = 10 -> <<"hbar">>       [] t = 11 -> <<"e", "minus">>
      [] t = 12 -> <<"fleur">>      [] t = 13 -> <<"female">>]

\* glyphToThetaPairs, in the order of its keys.
Pairs == <<[glyph |-> <<"sun">>, thetas |-> <<0, 1, 14>>],
           [glyph |-> <<"kappa", "oplus">>, thetas |-> <<11, 3>>],
           [glyph |-> <<"theta">>, thetas |-> <<7, 8>>],
           [glyph |-> <<"female">>, thetas |-> <<6, 9>>],
           [glyph |-> <<"sigma", "approx">>, thetas |-> <<4, 13>>]>>

HasDigit(glyph) == \E d \in Digits : glyph \in ToSet(DigitMap[d])
DigitLookup(glyph) == CHOOSE d \in Digits : glyph \in ToSet(DigitMap[d])

ThetaLookup(glyph) == {t \in ThetaIndices : ThetaMap[t] = glyph}

-----------------------------------------------------------------------------
(* Fuzzy correction *)

\* levenshtein: one row of the table from the one before.
NextRow(row, char, right) ==
    FoldLeft(LAMBDA next, j : Append(next, Min({next[j] + 1, row[j + 1] + 1,
                 row[j] + (IF right[j] = char THEN 0 ELSE 1)})),
             <<row[1] + 1>>, [j \in DOMAIN right |-> j])

Levenshtein(left, right) ==
    Last(FoldLeft(LAMBDA row, char : NextRow(row, char, right),
                  [j \in 1..(Len(right) + 1) |-> j - 1], left))

\* similarity, as a pair: the numerator and the denominator.
Similarity(left, right) ==
    LET longest == Max({Len(left), Len(right), 1})
    IN  <<longest - Levenshtein(left, right), longest>>
Closer(s1, s2) == s1[1] * s2[2] > s2[1] * s1[2]

\* The glyphs of the three tables, in the order nearestGlyph tries them.
Candidates ==
    [i \in DOMAIN Pairs |-> Pairs[i].glyph]
        \o [i \in 1..15 |-> ThetaMap[i - 1]]
        \o FlattenSeq([i \in 1..14 |-> DigitMap[i - 1]])

\* The first of the closest.
Best(token) ==
    LET score == [i \in DOMAIN Candidates |-> Similarity(token, Candidates[i])]
        first == CHOOSE i \in DOMAIN Candidates :
                     \A j \in DOMAIN Candidates :
                         /\ ~Closer(score[j], score[i])
                         /\ j < i => Closer(score[i], score[j])
    IN  Candidates[first]

\* Mutant: half of the characters is close enough.
NearestGlyphHalf(token) ==
    LET s == Similarity(token, Best(token))
    IN  IF 10 * s[1] >= 5 * s[2] THEN Best(token) ELSE Thrown

\* nearestGlyph.
NearestGlyph(token) ==
    LET s == Similarity(token, Best(token))
    IN  IF 10 * s[1] >= 6 * s[2] THEN Best(token) ELSE Thrown

-----------------------------------------------------------------------------
(* Glyphs to digits and back *)

\* What a glyph of a table stands for; the pairs are read only for a glyph that
\* is not canonical.
Known(glyph) == ThetaLookup(glyph) # {} \/ \E i \in DOMAIN Pairs : Pairs[i].glyph = glyph
Resolve(glyph) ==
    IF ThetaLookup(glyph) # {} THEN <<Min(ThetaLookup(glyph))>>
    ELSE Pairs[CHOOSE i \in DOMAIN Pairs : Pairs[i].glyph = glyph].thetas

\* resolveGlyphToThetaIndices with allowCorrection.
ResolveCorrected(token) ==
    CASE Known(token) -> Resolve(token)
      [] ~Known(token) /\ NearestGlyph(token) # Thrown /\ Known(NearestGlyph(token)) ->
             Resolve(NearestGlyph(token))
      [] OTHER -> Thrown

\* Mutant: a compound glyph is read as its first character.
ForwardDigitsFirst(glyph) ==
    IF HasDigit(glyph) THEN <<DigitLookup(glyph)>>
    ELSE <<DigitLookup(<<Head(SelectSeq(glyph, LAMBDA char : HasDigit(<<char>>)))>>)>>

\* glyphToDigitsForward; digitChoicesForThetaGlyph picks the same digits, as every
\* glyph that has probabilities has a digit.
ForwardDigits(glyph) ==
    IF HasDigit(glyph) THEN <<DigitLookup(glyph)>>
    ELSE LET known == SelectSeq(glyph, LAMBDA char : HasDigit(<<char>>))
         IN  [i \in DOMAIN known |-> DigitLookup(<<known[i]>>)]

\* decodeSymbolString: one token that is not known, and nothing is decoded.
DecodeThetas(glyphs) == FlattenSeq([i \in DOMAIN glyphs |-> Resolve(glyphs[i])])
Decode(glyphs) ==
    LET thetas == DecodeThetas(glyphs)
    IN  IF \E i \in DOMAIN glyphs : ~Known(glyphs[i]) THEN Thrown
        ELSE FlattenSeq([i \in DOMAIN thetas |-> ForwardDigits(ThetaMap[thetas[i]])])

\* deriveDigitToThetaIndices.
DigitToThetaIndices ==
    [strict \in BOOLEAN, d \in Digits |->
        SetToSortSeq({t \in ThetaIndices :
            /\ strict => Len(ForwardDigits(ThetaMap[t])) = 1
            /\ d \in ToSet(ForwardDigits(ThetaMap[t]))}, <)]

\* Not in findMissingReverseDigits.
Encodable(strict) == {d \in Digits : DigitToThetaIndices[strict, d] # <<>>}

\* digitsToThetaIndices: the indices of a digit take turns.
DigitsToThetaIndices(digits, strict) ==
    [i \in DOMAIN digits |->
        LET indices == DigitToThetaIndices[strict, digits[i]]
            next == Cardinality({j \in 1..(i - 1) : digits[j] = digits[i]})
        IN  indices[(next % Len(indices)) + 1]]

\* encodeDigitsToGlyphString.
Encode(digits, strict) ==
    LET thetas == DigitsToThetaIndices(digits, strict)
    IN  [i \in DOMAIN thetas |-> ThetaMap[thetas[i]]]

-----------------------------------------------------------------------------
(* Digits to bytes *)

\* digitsToBigInt.
DigitsToNumber(digits) == FoldLeft(LAMBDA value, d : 14 * value + d, 0, digits)

\* digitsToBytes.
BytesOf[value \in Nat] ==
    IF value = 0 THEN <<>> ELSE Append(BytesOf[value \div 256], value % 256)
DigitsToBytes(digits) ==
    IF DigitsToNumber(digits) = 0 THEN <<0>> ELSE BytesOf[DigitsToNumber(digits)]

\* addChecksum and verifyChecksum; the hash of a payload is modelled by the payload.
AddChecksum(payload) == payload \o [i \in 1..4 |-> <<payload, i>>]
VerifyChecksum(data) ==
    /\ Len(data) >= 5
    /\ LET payload == SubSeq(data, 1, Len(data) - 4)
       IN  data = AddChecksum(payload)

-----------------------------------------------------------------------------
(* Bytes to text and to BIP-39 indices *)

\* bufferToBitString.
Bits(byte) == [i \in 1..8 |-> (byte \div 2^(8 - i)) % 2]
BitString(bytes) == FlattenSeq([i \in DOMAIN bytes |-> Bits(bytes[i])])
NumberOf(bits) == FoldLeft(LAMBDA value, b : 2 * value + b, 0, bits)
Zeros(n) == [i \in 1..n |-> 0]

\* (value << 8) | byte, and (value >>> shift) & 31, of a word of 32 bits.
ShiftIn(word, byte) == SubSeq(word, 9, 32) \o Bits(byte)
Five(word, shift) == NumberOf(SubSeq(word, 28 - shift, 32 - shift))

\* One byte: as many characters as there are five bits for.
Base32Step(st, byte) ==
    LET word == ShiftIn(st.word, byte)
        bits == st.bits + 8
    IN  [word |-> word, bits |-> bits % 5,
         out |-> st.out \o [i \in 1..(bits \div 5) |-> Five(word, bits - 5 * i)]]

Padding == 32
Pad(out) == out \o [i \in 1..((8 - (Len(out) % 8)) % 8) |-> Padding]

\* Mutant: the last bits are taken from the low end of five.
Base32EncodeUnshifted(bytes) ==
    LET st == FoldLeft(Base32Step, [word |-> Zeros(32), bits |-> 0, out |-> <<>>], bytes)
    IN  Pad(IF st.bits > 0
            THEN Append(st.out, NumberOf(SubSeq(st.word, 33 - st.bits, 32)))
            ELSE st.out)

\* base32Encode.
Base32Encode(bytes) ==
    LET st == FoldLeft(Base32Step, [word |-> Zeros(32), bits |-> 0, out |-> <<>>], bytes)
    IN  Pad(IF st.bits > 0
            THEN Append(st.out, NumberOf(SubSeq(st.word \o Zeros(5 - st.bits), 33 - st.bits, 37 - st.bits)))
            ELSE st.out)

\* entropyToBip39Bits: the entropy, then one bit of its hash for every 32.
Bip39Length(entropy) == entropy # <<>> /\ (8 * Len(entropy)) % 32 = 0
EntropyToBip39Bits(entropy, hash) ==
    BitString(entropy) \o SubSeq(hash, 1, (8 * Len(entropy)) \div 32)

\* bitsTo11BitIndices.
BitsTo11BitIndices(bits) ==
    IF Len(bits) % 11 # 0 THEN Thrown
    ELSE [i \in 1..(Len(bits) \div 11) |-> NumberOf(SubSeq(bits, 11 * i - 10, 11 * i))]
=============================================================================
