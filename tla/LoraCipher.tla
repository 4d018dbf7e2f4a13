----------------------------- MODULE LoraCipher -----------------------------
(***************************************************************************)
(* What lib/aes/Cipher.cpp does to the size of a message: encryptBytes     *)
(* pads it to whole blocks and notes the padding in the last byte, and     *)
(* decryptBytes takes the padding off.  A block cipher keeps sizes and, in *)
(* the end, contents, so only sizes and the last byte are kept here.       *)
(***************************************************************************)
EXTENDS Integers

Block == 16

\* Sizes pass through int8_t.
Int8(n) == ((n + 128) % 256) - 128

\* Broken on purpose: no place is left for the byte that holds the padding.
PaddingFull(n) == 16 - (n % 16)

\* encryptBytes.
Padding(n) == 15 - (n % 16)

EncryptedSize(n) == Int8(n + Padding(n) + 1)

\* Broken on purpose: the byte that holds the padding is counted with the message.
DecryptedSizeWithLast(size, last) == IF size % 16 # 0 THEN 0 ELSE Int8(size - last)

\* decryptBytes, given the last byte.
DecryptedSize(size, last) == IF size % 16 # 0 THEN 0 ELSE Int8(size - last - 1)
=============================================================================
