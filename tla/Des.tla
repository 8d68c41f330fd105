--------------------------------- MODULE Des ---------------------------------
(***************************************************************************)
(* The signing library (WOTEDUtils/Class1.cs) that every API command calls *)
(* through COM.  strEnc encrypts a text four characters at a time, with    *)
(* one block cipher after the other for each four characters of its keys;  *)
(* strDec undoes it.  The strEncSignN functions encrypt the ordered list   *)
(* of a request's parameters.                                              *)
(*                                                                         *)
(* Characters are UTF-16 code units and hex digits are their values.       *)
(* Blocks of bits are functions on 0 .. n-1, as the arrays are.            *)
(***************************************************************************)
EXTENDS Naturals, Sequences, SequencesExt, FiniteSetsExt, TLC

CONSTANTS ArgLists,     \* lists of parameters, each a text
          KeyTriples      \* <<firstKey, secondKey, thirdKey>>

Char == 0 .. 65535

ASSUME DesAssumption ==
    /\ \A a \in ArgLists : \A i \in DOMAIN a : a[i] \in Seq(Char)
    /\ \A k \in KeyTriples : \A i \in 1 .. 3 : k[i] \in Seq(Char)

-----------------------------------------------------------------------------
(***************************************************************************)
(* The block cipher.                                                       *)
(***************************************************************************)
Permute(table, bits) == [p \in 0 .. Len(table) - 1 |-> bits[table[p + 1]]]

xor(a, b) == [p \in DOMAIN a |-> (a[p] + b[p]) % 2]

initPermute(b) ==
    [p \in 0 .. 63 |->
        b[(7 - (p % 8)) * 8 + 2 * ((p % 32) \div 8) + (IF p < 32 THEN 1 ELSE 0)]]

finallyPermute(b) == Permute(
    <<39, 7, 47, 15, 55, 23, 63, 31, 38, 6, 46, 14, 54, 22, 62, 30,
      37, 5, 45, 13, 53, 21, 61, 29, 36, 4, 44, 12, 52, 20, 60, 28,
      35, 3, 43, 11, 51, 19, 59, 27, 34, 2, 42, 10, 50, 18, 58, 26,
      33, 1, 41, 9, 49, 17, 57, 25, 32, 0, 40, 8, 48, 16, 56, 24>>, b)

\* Groups of four bits, each with the bit before and the bit after it.
expandPermute(r) == [p \in 0 .. 47 |-> r[((p \div 6) * 4 + (p % 6) + 31) % 32]]

pPermute(b) == Permute(
    <<15, 6, 19, 20, 28, 11, 27, 16, 0, 14, 22, 25, 4, 17, 30, 9,
      1, 7, 23, 13, 31, 26, 2, 8, 18, 12, 29, 5, 21, 10, 3, 24>>, b)

Boxes ==
    <<<<<<14, 4, 13, 1, 2, 15, 11, 8, 3, 10, 6, 12, 5, 9, 0, 7>>,
        <<0, 15, 7, 4, 14, 2, 13, 1, 10, 6, 12, 11, 9, 5, 3, 8>>,
        <<4, 1, 14, 8, 13, 6, 2, 11, 15, 12, 9, 7, 3, 10, 5, 0>>,
        <<15, 12, 8, 2, 4, 9, 1, 7, 5, 11, 3, 14, 10, 0, 6, 13>>>>,
      <<<<15, 1, 8, 14, 6, 11, 3, 4, 9, 7, 2, 13, 12, 0, 5, 10>>,
        <<3, 13, 4, 7, 15, 2, 8, 14, 12, 0, 1, 10, 6, 9, 11, 5>>,
        <<0, 14, 7, 11, 10, 4, 13, 1, 5, 8, 12, 6, 9, 3, 2, 15>>,
        <<13, 8, 10, 1, 3, 15, 4, 2, 11, 6, 7, 12, 0, 5, 14, 9>>>>,
      <<<<10, 0, 9, 14, 6, 3, 15, 5, 1, 13, 12, 7, 11, 4, 2, 8>>,
        <<13, 7, 0, 9, 3, 4, 6, 10, 2, 8, 5, 14, 12, 11, 15, 1>>,
        <<13, 6, 4, 9, 8, 15, 3, 0, 11, 1, 2, 12, 5, 10, 14, 7>>,
        <<1, 10, 13, 0, 6, 9, 8, 7, 4, 15, 14, 3, 11, 5, 2, 12>>>>,
      <<<<7, 13, 14, 3, 0, 6, 9, 10, 1, 2, 8, 5, 11, 12, 4, 15>>,
        <<13, 8, 11, 5, 6, 15, 0, 3, 4, 7, 2, 12, 1, 10, 14, 9>>,
        <<10, 6, 9, 0, 12, 11, 7, 13, 15, 1, 3, 14, 5, 2, 8, 4>>,
        <<3, 15, 0, 6, 10, 1, 13, 8, 9, 4, 5, 11, 12, 7, 2, 14>>>>,
      <<<<2, 12, 4, 1, 7, 10, 11, 6, 8, 5, 3, 15, 13, 0, 14, 9>>,
        <<14, 11, 2, 12, 4, 7, 13, 1, 5, 0, 15, 10, 3, 9, 8, 6>>,
        <<4, 2, 1, 11, 10, 13, 7, 8, 15, 9, 12, 5, 6, 3, 0, 14>>,
        <<11, 8, 12, 7, 1, 14, 2, 13, 6, 15, 0, 9, 10, 4, 5, 3>>>>,
      <<<<12, 1, 10, 15, 9, 2, 6, 8, 0, 13, 3, 4, 14, 7, 5, 11>>,
        <<10, 15, 4, 2, 7, 12, 9, 5, 6, 1, 13, 14, 0, 11, 3, 8>>,
        <<9, 14, 15, 5, 2, 8, 12, 3, 7, 0, 4, 10, 1, 13, 11, 6>>,
        <<4, 3, 2, 12, 9, 5, 15, 10, 11, 14, 1, 7, 6, 0, 8, 13>>>>,
      <<<<4, 11, 2, 14, 15, 0, 8, 13, 3, 12, 9, 7, 5, 10, 6, 1>>,
        <<13, 0, 11, 7, 4, 9, 1, 10, 14, 3, 5, 12, 2, 15, 8, 6>>,
        <<1, 4, 11, 13, 12, 3, 7, 14, 10, 15, 6, 8, 0, 5, 9, 2>>,
        <<6, 11, 13, 8, 1, 4, 10, 7, 9, 5, 0, 15, 14, 2, 3, 12>>>>,
      <<<<13, 2, 8, 4, 6, 15, 11, 1, 10, 9, 3, 14, 5, 0, 12, 7>>,
        <<1, 15, 13, 8, 10, 3, 7, 4, 12, 5, 6, 11, 0, 14, 9, 2>>,
        <<7, 11, 4, 1, 9, 12, 14, 2, 0, 6, 10, 13, 15, 3, 5, 8>>,
        <<2, 1, 14, 7, 4, 10, 8, 13, 15, 12, 9, 0, 3, 5, 6, 11>>>>>>

\* Six bits choose a row (the outer two) and a column of their box.
sBoxPermute(e) ==
    LET box(m) ==
            Boxes[m + 1][e[m * 6] * 2 + e[m * 6 + 5] + 1]
                 [e[m * 6 + 1] * 8 + e[m * 6 + 2] * 4 + e[m * 6 + 3] * 2
                    + e[m * 6 + 4] + 1]
    IN [p \in 0 .. 31 |-> (box(p \div 4) \div 2 ^ (3 - (p % 4))) % 2]

\* The left shifts of both halves of the key, added up round by round.
Shifts == <<1, 2, 4, 6, 8, 10, 12, 14, 15, 17, 19, 21, 23, 25, 27, 28>>

\* The 48 bits of a round of the 56 bits of the key, both halves rotated.
generateKeys(keyByte, i) ==
    LET key == [q \in 0 .. 55 |-> keyByte[8 * (7 - (q % 8)) + (q \div 8)]]
        rotated ==
            [q \in 0 .. 55 |->
                key[28 * (q \div 28) + (((q % 28) + Shifts[i]) % 28)]]
    IN Permute(
          <<13, 16, 10, 23, 0, 4, 2, 27, 14, 5, 20, 9, 22, 18, 11, 3,
            25, 7, 15, 6, 26, 19, 12, 1, 40, 51, 30, 36, 46, 54, 29, 39,
            50, 44, 32, 47, 43, 48, 38, 55, 33, 52, 45, 41, 49, 35, 28, 31>>,
          rotated)

\* ipLeft and ipRight before the rounds, after one, and the block they make.
Load(b) ==
    LET ip == initPermute(b)
    IN <<[p \in 0 .. 31 |-> ip[p]], [p \in 0 .. 31 |-> ip[32 + p]]>>

Round(lr, key) ==
    <<lr[2], xor(pPermute(sBoxPermute(xor(expandPermute(lr[2]), key))), lr[1])>>

Final(lr) ==
    finallyPermute([p \in 0 .. 63 |-> IF p < 32 THEN lr[2][p] ELSE lr[1][p - 32]])

-----------------------------------------------------------------------------
(***************************************************************************)
(* Texts, blocks and hex digits.                                           *)
(***************************************************************************)
\* 16 bits for each of four characters, zeros for the missing ones.
strToBt(str) ==
    [p \in 0 .. 63 |-> IF p \div 16 < Len(str)
                       THEN (str[p \div 16 + 1] \div 2 ^ (15 - (p % 16))) % 2
                       ELSE 0]

\* Four characters at a time, the rest last.
Chunks(str) ==
    [i \in 1 .. (Len(str) + 3) \div 4 |->
        SubSeq(str, 4 * i - 3, Min({4 * i, Len(str)}))]

getKeyBytes(key) == [i \in 1 .. Len(Chunks(key)) |-> strToBt(Chunks(key)[i])]

\* The blocks of the keys in use: an empty key takes the later ones with it.
KeyBlocks(t) ==
    FlattenSeq([n \in 1 .. 3 |->
        IF \A j \in 1 .. n : t[j] # <<>> THEN getKeyBytes(t[n]) ELSE <<>>])

bt64ToHex(b) ==
    [h \in 1 .. 16 |-> b[4 * h - 4] * 8 + b[4 * h - 3] * 4 + b[4 * h - 2] * 2
                        + b[4 * h - 1]]

hexToBt64(hex) == [p \in 0 .. 63 |-> (hex[p \div 4 + 1] \div 2 ^ (3 - (p % 4))) % 2]

\* A zero is no character: the padding goes away.
byteToString(b) ==
    SelectSeq([i \in 1 .. 4 |->
                 MapThenSumSet(LAMBDA j : b[16 * (i - 1) + j] * 2 ^ (15 - j), 0 .. 15)],
              LAMBDA c : c # 0)

\* The ordinal order of texts: the first difference, or the shorter one first.
Ordinal(s, t) ==
    \E n \in 0 .. Min({Len(s), Len(t)}) :
        /\ SubSeq(s, 1, n) = SubSeq(t, 1, n)
        /\ \/ n = Len(s)
           \/ n < Len(s) /\ n < Len(t) /\ s[n + 1] < t[n + 1]

\* Faulty variant: the shorter text first.
ByLength(args) ==
    LET sorted == SortSeq(args, LAMBDA s, t : Len(s) < Len(t))
    IN FlattenSeq([i \in 1 .. Len(sorted) |->
                     IF i = 1 THEN sorted[i] ELSE <<44>> \o sorted[i]])

\* The texts in ordinal order with a comma (44) between them.
naturalOrdering(args) ==
    LET sorted == SortSeq(args, LAMBDA s, t : s # t /\ Ordinal(s, t))
    IN FlattenSeq([i \in 1 .. Len(sorted) |->
                     IF i = 1 THEN sorted[i] ELSE <<44>> \o sorted[i]])

-----------------------------------------------------------------------------
VARIABLES
    args,       \* the parameters of the request
    keys,       \* the blocks of the keys
    data,       \* the text to encrypt
    cipher,     \* encData, in hex digits
    plain,      \* decStr
    pc,         \* which of strEnc and strDec is at work, and in enc or dec
    k,          \* the block of the keys that is being applied
    i,          \* the rounds done with it
    lr          \* ipLeft and ipRight

vars == <<args, keys, data, cipher, plain, pc, k, i, lr>>
text == <<args, keys, data>>

\* strEncSignN: the parameters in order, then strEnc.
Init ==
    /\ args \in ArgLists
    /\ keys \in {KeyBlocks(t) : t \in KeyTriples}
    /\ data = naturalOrdering(args)
    /\ cipher = <<>>
    /\ plain = <<>>
    /\ pc = "strEnc"
    /\ k = 0
    /\ i = 0
    /\ lr = <<>>

Encrypted == Len(cipher) \div 16
Decrypted == (Len(plain) + 3) \div 4

\* A block of the text, first key.
EncChunk ==
    /\ pc = "strEnc"
    /\ Encrypted < Len(Chunks(data))
    /\ keys # <<>>
    /\ lr' = Load(strToBt(Chunks(data)[Encrypted + 1]))
    /\ k' = 1
    /\ i' = 0
    /\ pc' = "enc"
    /\ UNCHANGED <<text, cipher, plain>>

\* Without a key there is no block to convert: a null reference.
EncFails ==
    /\ pc = "strEnc"
    /\ data # <<>>
    /\ keys = <<>>
    /\ pc' = "exception"
    /\ UNCHANGED <<text, cipher, plain, k, i, lr>>

EncRound ==
    /\ pc = "enc"
    /\ i < 16
    /\ lr' = Round(lr, generateKeys(keys[k], i + 1))
    /\ i' = i + 1
    /\ UNCHANGED <<text, cipher, plain, pc, k>>

\* enc returns: the next key goes over its result, or the block is done.
EncReturn ==
    /\ pc = "enc"
    /\ i = 16
    /\ \/ /\ k < Len(keys)
          /\ lr' = Load(Final(lr))
          /\ k' = k + 1
          /\ i' = 0
          /\ UNCHANGED <<cipher, pc>>
       \/ /\ k = Len(keys)
          /\ cipher' = cipher \o bt64ToHex(Final(lr))
          /\ pc' = "strEnc"
          /\ UNCHANGED <<k, i, lr>>
    /\ UNCHANGED <<text, plain>>

\* The caller decrypts what it got.
EncDone ==
    /\ pc = "strEnc"
    /\ Encrypted = Len(Chunks(data))
    /\ pc' = "strDec"
    /\ UNCHANGED <<text, cipher, plain, k, i, lr>>

\* Faulty variant: the keys in the order of the encryption.
DecChunkFirstKey ==
    /\ pc = "strDec"
    /\ Decrypted < Encrypted
    /\ lr' = Load(hexToBt64(SubSeq(cipher, 16 * Decrypted + 1, 16 * Decrypted + 16)))
    /\ k' = 1
    /\ i' = 0
    /\ pc' = "dec"
    /\ UNCHANGED <<text, cipher, plain>>

\* A block of the hex digits, last key.
DecChunk ==
    /\ pc = "strDec"
    /\ Decrypted < Encrypted
    /\ lr' = Load(hexToBt64(SubSeq(cipher, 16 * Decrypted + 1, 16 * Decrypted + 16)))
    /\ k' = Len(keys)
    /\ i' = 0
    /\ pc' = "dec"
    /\ UNCHANGED <<text, cipher, plain>>

\* The keys of the rounds in the opposite order.
DecRound ==
    /\ pc = "dec"
    /\ i < 16
    /\ lr' = Round(lr, generateKeys(keys[k], 16 - i))
    /\ i' = i + 1
    /\ UNCHANGED <<text, cipher, plain, pc, k>>

DecReturn ==
    /\ pc = "dec"
    /\ i = 16
    /\ \/ /\ k > 1
          /\ lr' = Load(Final(lr))
          /\ k' = k - 1
          /\ i' = 0
          /\ UNCHANGED <<plain, pc>>
       \/ /\ k = 1
          /\ plain' = plain \o byteToString(Final(lr))
          /\ pc' = "strDec"
          /\ UNCHANGED <<k, i, lr>>
    /\ UNCHANGED <<text, cipher>>

DecDone ==
    /\ pc = "strDec"
    /\ Decrypted = Encrypted
    /\ pc' = "done"
    /\ UNCHANGED <<text, cipher, plain, k, i, lr>>

Next ==
    \/ EncChunk \/ EncFails \/ EncRound \/ EncReturn \/ EncDone
    \/ DecChunk \/ DecRound \/ DecReturn \/ DecDone

Spec == Init /\ [][Next]_vars

-----------------------------------------------------------------------------
(***************************************************************************)
(* strDec undoes strEnc, block by block, for every number of characters in *)
(* the text, of keys, and of characters in a key: what is decrypted so far *)
(* is the beginning of the text, and at the end all of it.  (A text that   *)
(* holds a zero character is not recovered, see byteToString.)             *)
(***************************************************************************)
RoundTrip ==
    /\ IsPrefix(plain, data)
    /\ pc = "done" => plain = data

(***************************************************************************)
(* The signature does not depend on the order in which the server lists    *)
(* the parameters, only on the parameters: the API computes it on its own  *)
(* from the parameters it finds in the request.                            *)
(***************************************************************************)
SignCanonical ==
    \A a \in ArgLists :
        (\E f \in Permutations(1 .. Len(args)) :
            Len(a) = Len(args) /\ \A n \in 1 .. Len(a) : a[n] = args[f[n]])
        => naturalOrdering(a) = data
=============================================================================
