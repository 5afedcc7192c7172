------------------------------- MODULE Crypt --------------------------------
(***************************************************************************)
(* The cipher of secret messages.  encrypt and decrypt are one loop over    *)
(* the words of a buffer; a last word that is not whole is handled apart.   *)
(* Each word is combined with a word of the key and with the raw word       *)
(* before it, and the raw words are added up: the sum the sender puts into  *)
(* the message is compared with the receiver's.                             *)
(*                                                                          *)
(* The loop reads the same for words of any width: they have WordBytes      *)
(* bytes of 0 .. MaxByte (4 and 255 in the code), the lowest one first.     *)
(*   source: xrGame/secure_messaging.cpp                                    *)
(***************************************************************************)
EXTENDS Integers, Sequences

CONSTANTS MaxByte, WordBytes,
          KeyLengths,     \* 16 .. 31 words in the code
          MaxBuffer,      \* bound on the length of a buffer, in bytes
          XorBytes(_, _)       \* ^, of two bytes

ASSUME WidthsAssumption == MaxByte \in Nat /\ WordBytes \in Nat \ {0}
ASSUME LengthsAssumption == KeyLengths \subseteq Nat \ {0} /\ MaxBuffer \in Nat

Bytes == 0 .. MaxByte

(* What is combined with a byte twice is gone, whatever comes in between.   *)
ASSUME XorAssumption ==
    \A a, b \in Bytes : /\ XorBytes(a, b) \in Bytes
                        /\ XorBytes(XorBytes(a, b), b) = a
                        /\ \A c \in Bytes : XorBytes(XorBytes(a, b), c) = XorBytes(XorBytes(a, c), b)

VARIABLES key,       \* key_t: the words of the key, the same at both ends
          plain,     \* the message, as its sender wrote it
          buffer,    \* the buffer in which it is encrypted and decrypted
          sums,      \* the checksums of encrypt and of decrypt
          stage
CryptVars == <<key, plain, buffer, sums, stage>>

-----------------------------------------------------------------------------
(* Words. *)
Words   == [1 .. WordBytes -> Bytes]
AllOnes == [b \in 1 .. WordBytes |-> MaxByte]      \* -1

XorWords(v, w) == [b \in 1 .. WordBytes |-> XorBytes(v[b], w[b])]

(* A word as the unsigned number that is added to the checksum.             *)
Value(w) ==
    LET from[n \in 0 .. WordBytes] ==
            IF n = 0 THEN 0 ELSE (MaxByte + 1) * from[n - 1] + w[WordBytes + 1 - n]
    IN  from[WordBytes]
Wraps == Value(AllOnes) + 1

(* The words of a buffer.  The last one may have fewer bytes; those the     *)
(* buffer does not have are 0.                                              *)
Count(data) == (Len(data) + WordBytes - 1) \div WordBytes
BytesOf(data, i) == IF i * WordBytes <= Len(data) THEN WordBytes
                    ELSE Len(data) - (i - 1) * WordBytes
WordAt(data, i) == [b \in 1 .. WordBytes |->
                       IF b <= BytesOf(data, i) THEN data[(i - 1) * WordBytes + b] ELSE 0]

(* key_word_index goes round the key.                                       *)
KeyWord(sec_key, i) == sec_key[((i - 1) % Len(sec_key)) + 1]

-----------------------------------------------------------------------------
(* What is added to the checksum for the n bytes left when decrypting: the  *)
(* bytes of the key beyond them are masked out.  Slip: they are not.        *)
WholeWord(w, n) == w
Masked(w, n) == [b \in 1 .. WordBytes |-> IF b <= n THEN w[b] ELSE 0]

Start == [new |-> AllOnes, last |-> AllOnes, sum |-> 0]

(* One word of the loop, or the rest of n bytes: raw is what the buffer     *)
(* holds, new what replaces it; the message is raw when encrypting and new  *)
(* when decrypting.  Slip: the last word is the one written, at both ends.  *)
LastIsNew(action, raw, new) == new
MessageWord(action, raw, new) == IF action = "encrypt" THEN raw ELSE new
Step(action, before, raw, k, n) ==
    LET new     == XorWords(XorWords(raw, k), before.last)
        message == MessageWord(action, raw, new)
    IN  [new  |-> new,
         last |-> message,
         sum  |-> (before.sum + Value(Masked(message, n))) % Wraps]

(* Where the j-th byte of a buffer is: in which word, and which byte of it.  *)
WordOf(j) == ((j - 1) \div WordBytes) + 1
ByteOf(j) == ((j - 1) % WordBytes) + 1

(* The bytes that are copied back.  Slip: the last word is, past the end of *)
(* the buffer.                                                              *)
WholeWords(data) == 1 .. Count(data) * WordBytes
Copied(data) == 1 .. Len(data)

(* What the loop does to a buffer, and the checksum it returns. *)
xray_crypt(data, sec_key, action) ==
    LET loop[i \in 0 .. Count(data)] ==
            IF i = 0 THEN Start
            ELSE Step(action, loop[i - 1], WordAt(data, i), KeyWord(sec_key, i),
                      BytesOf(data, i))
    IN  [out |-> [j \in Copied(data) |-> loop[WordOf(j)].new[ByteOf(j)]],
         sum |-> loop[Count(data)].sum]

-----------------------------------------------------------------------------
Keys    == UNION {[1 .. n -> Words] : n \in KeyLengths}
Buffers == UNION {[1 .. n -> Bytes] : n \in 0 .. MaxBuffer}

CryptInit == /\ key \in Keys
             /\ plain \in Buffers
             /\ buffer = plain
             /\ sums = [encrypt |-> 0, decrypt |-> 0]
             /\ stage = "plain"

Crypt(action, from, to) ==
    LET result == xray_crypt(buffer, key, action)
    IN  /\ stage = from
        /\ stage' = to
        /\ buffer' = result.out
        /\ sums' = [sums EXCEPT ![action] = result.sum]
        /\ UNCHANGED <<key, plain>>

(* SecureSendTo and SecureSend, and OnSecureMessage at the other end. *)
Encrypt == Crypt("encrypt", "plain", "secret")
Decrypt == Crypt("decrypt", "secret", "read")

CryptNext == Encrypt \/ Decrypt
CryptSpec == CryptInit /\ [][CryptNext]_CryptVars

-----------------------------------------------------------------------------
(* Neither direction writes past the end of the buffer or outside its bytes.*)
CryptTypeOK == /\ key \in Keys
               /\ buffer \in Buffers
               /\ Len(buffer) = Len(plain)
               /\ sums \in [{"encrypt", "decrypt"} -> 0 .. Wraps - 1]
               /\ stage \in {"plain", "secret", "read"}

(* The receiver reads what the sender wrote, whatever the length of the     *)
(* message is to that of a word and of the key, and both ends compute the   *)
(* same checksum (OnSecureMessage asserts it), also where the last word is  *)
(* not whole and the sum overflows.                                         *)
RoundTrip == stage = "read" => buffer = plain /\ sums.decrypt = sums.encrypt
=============================================================================
