---------------------------- MODULE MCThetaCodec ----------------------------
(***************************************************************************)
(* The codec on every small input: a string of digits, of bytes or of      *)
(* characters that grows by one symbol a step.                             *)
(***************************************************************************)
EXTENDS ThetaCodec

CONSTANTS Byte, Char, MaxDigits, MaxBytes, MaxChars   \* bounds on the inputs

VARIABLES digits, bytes, token
vars == <<digits, bytes, token>>

Init == digits = <<>> /\ bytes = <<>> /\ token = <<>>

TypeDigit(d) ==
    /\ bytes = <<>> /\ token = <<>> /\ Len(digits) < MaxDigits
    /\ digits' = Append(digits, d)
    /\ UNCHANGED <<bytes, token>>

TypeByte(b) ==
    /\ digits = <<>> /\ token = <<>> /\ Len(bytes) < MaxBytes
    /\ bytes' = Append(bytes, b)
    /\ UNCHANGED <<digits, token>>

TypeChar(c) ==
    /\ digits = <<>> /\ bytes = <<>> /\ Len(token) < MaxChars
    /\ token' = Append(token, c)
    /\ UNCHANGED <<digits, bytes>>

Next == \/ \E d \in Digits : TypeDigit(d)
        \/ \E b \in Byte : TypeByte(b)
        \/ \E c \in Char : TypeChar(c)

Spec == Init /\ [][Next]_vars
-----------------------------------------------------------------------------
\* What is encoded in strict mode is decoded to the same digits, also when a digit
\* has several indices that take turns.  In the default mode the one compound glyph
\* stands for a two or a three only and is decoded to both, in that order; every
\* other glyph is decoded to its digit, and all come back in the order of the digits
\* (R1, digitsToThetaIndices, decodeSymbolString).
GlyphsRoundTrip ==
    LET glyphs == Encode(digits, FALSE)
        compound == {i \in DOMAIN digits : glyphs[i] = <<"kappa", "oplus">>}
    IN  /\ digits \in Seq(Encodable(TRUE)) => Decode(Encode(digits, TRUE)) = digits
        /\ \A i \in compound : digits[i] \in {2, 3}
        /\ Decode(glyphs) = FlattenSeq([i \in DOMAIN digits |->
                                 IF i \in compound THEN <<2, 3>> ELSE <<digits[i]>>])

\* The digits a number has in base 14: none for zero, no zero in front.
Base14[value \in Nat] ==
    IF value = 0 THEN <<>> ELSE Append(Base14[value \div 14], value % 14)
WithoutLeadingZeros(ds) ==
    SubSeq(ds, Min({i \in DOMAIN ds : ds[i] # 0} \cup {Len(ds) + 1}), Len(ds))
BytesToNumber(bs) == FoldLeft(LAMBDA value, b : 256 * value + b, 0, bs)

\* RFC 4648: all the bits, zeros up to a multiple of five, padding up to eight.
ReferenceBase32(bs) ==
    LET bits == BitString(bs) \o Zeros((2 * Len(bs)) % 5)
    IN  Pad([i \in 1..(Len(bits) \div 5) |-> NumberOf(SubSeq(bits, 5 * i - 4, 5 * i))])

\* Digits are the same bytes only when they differ in leading zeros; there is a byte
\* also of zero, without which the bytes with their checksum would not verify; the
\* 32-bit word of the base32 encoder, out of which bits are shifted and lost, loses
\* none that is needed; and the indices of an entropy are word numbers that hold its
\* bits and then the first bits of its hash, each in order (digitsToBytes,
\* verifyChecksum, base32Encode, entropyToBip39Bits, bitsTo11BitIndices).
TextKeepsValue ==
    /\ Base14[BytesToNumber(DigitsToBytes(digits))] = WithoutLeadingZeros(digits)
    /\ VerifyChecksum(AddChecksum(DigitsToBytes(digits)))
    /\ Base32Encode(bytes) = ReferenceBase32(bytes)
    /\ Bip39Length(bytes) => \A hash \in [1..4 -> {0, 1}] :
          LET indices == BitsTo11BitIndices(EntropyToBip39Bits(bytes, hash))
              held == BitString(bytes) \o hash
          IN  /\ indices \in Seq(0..2047)
              /\ 11 * Len(indices) = 8 * Len(bytes) + Len(bytes) \div 4
              /\ \A k \in 1..(11 * Len(indices)) :
                    (indices[1 + (k - 1) \div 11] \div 2^(10 - ((k - 1) % 11))) % 2 = held[k]

\* Edit distance as the cheapest alignment: pairs of positions that do not cross.
Alignments(left, right) ==
    {A \in SUBSET ((DOMAIN left) \X (DOMAIN right)) :
        \A p, q \in A : p # q => (p[1] < q[1] /\ p[2] < q[2]) \/ (q[1] < p[1] /\ q[2] < p[2])}
Distance(left, right) ==
    Min({Len(left) + Len(right) - 2 * Cardinality(A)
            + Cardinality({p \in A : left[p[1]] # right[p[2]]}) : A \in Alignments(left, right)})

\* The two rows of levenshtein compute the distance to every glyph, and a token that
\* is no glyph is corrected only when it is a glyph of two characters with a third
\* one put in, and to that glyph (nearestGlyph, resolveGlyphToThetaIndices).
CorrectionIsSafe ==
    token # <<>> =>
        /\ \A i \in DOMAIN Candidates :
               Levenshtein(token, Candidates[i]) = Distance(token, Candidates[i])
        /\ ResolveCorrected(token) # Thrown =>
               \/ Known(token)
               \/ \E k \in DOMAIN token :
                     /\ Len(token) = 3
                     /\ Known(RemoveAt(token, k))
                     /\ ResolveCorrected(token) = Resolve(RemoveAt(token, k))
        /\ ~Known(token) /\ (\E k \in DOMAIN token : Len(token) = 3 /\ Known(RemoveAt(token, k)))
               => ResolveCorrected(token) # Thrown
=============================================================================
