-------------------------------- MODULE Uid --------------------------------
(***************************************************************************)
(* The UID of a user (lib/uid.c): 64 bits that hide the first ten digits   *)
(* of the phone number behind a hash of the phone and the e-mail, written  *)
(* as text.  The module has the way back, too, which uid.c has in its      *)
(* test.                                                                   *)
(*                                                                         *)
(* A number of 40 bits is a function from its ten nibbles, a word one from *)
(* its bits, both with the least significant at 0.  A text is a sequence   *)
(* of character codes.                                                     *)
(***************************************************************************)
EXTENDS Integers, Sequences

CONSTANT BuzBucket   \* the hash's word for each character

Bit == 0..1
Nibbles == 0..9                 \* MAX_DIGITS = 10
Phone == [Nibbles -> 0..9]
Word == [0..31 -> Bit]
Long == [0..63 -> Bit]

ASSUME UidAssumption == \A c \in DOMAIN BuzBucket : BuzBucket[c] \in Word

\* the texts that the table has words for
Texts == Seq(DOMAIN BuzBucket)

(***************************************************************************)
(* The digits of the phone.                                                *)
(***************************************************************************)
IsDigit(c) == c \in 48..57

\* the first ten digits; a short number is filled with zeros from the right
phone_to_int(text) ==
  LET digits[n \in 0..Len(text)] ==
        IF n = 0 THEN <<>>
        ELSE IF IsDigit(text[n]) THEN Append(digits[n - 1], text[n] - 48)
             ELSE digits[n - 1]
      v == digits[Len(text)]
  IN  [i \in Nibbles |-> IF 10 - i <= Len(v) THEN v[10 - i] ELSE 0]

p_encode == [i \in Nibbles |-> <<7, 5, 3, 0, 2, 8, 9, 6, 4, 1>>[i + 1]]
p_decode == [i \in Nibbles |-> <<3, 9, 4, 2, 8, 1, 7, 0, 5, 6>>[i + 1]]

\* the nibble that goes to j
MovesTo(j, pindex) == CHOOSE i \in Nibbles : pindex[i] = j

permute_phone_digits(phone, pindex) == [j \in Nibbles |-> phone[MovesTo(j, pindex)]]

(***************************************************************************)
(* The decimal number of the digits, read from the least significant       *)
(* nibble, as a pair of its upper and its lower five digits.               *)
(***************************************************************************)
Number == {m \in Nat \X Nat : m[1] < 100000 /\ m[2] < 100000}

Five(phone, i) == 10000 * phone[i] + 1000 * phone[i + 1] + 100 * phone[i + 2]
                    + 10 * phone[i + 3] + phone[i + 4]

convert_to_b10int(phone) == <<Five(phone, 0), Five(phone, 5)>>

convert_to_b4int(number) ==
  [i \in Nibbles |->
     (number[1 + (i \div 5)] \div <<10000, 1000, 100, 10, 1>>[1 + (i % 5)]) % 10]

Half(m) == <<m[1] \div 2, (m[2] + 100000 * (m[1] % 2)) \div 2>>

TwicePlus(m, b) ==
  LET low == 2 * m[2] + b
  IN  <<(2 * m[1] + (low \div 100000)) % 100000, low % 100000>>

\* the bits of a number of 34 bits, and back
Binary(m) ==
  LET halved[n \in 0..33] == IF n = 0 THEN m ELSE Half(halved[n - 1])
  IN  [n \in 0..33 |-> halved[n][2] % 2]

Decimal(bits) ==
  LET number[n \in 0..34] ==
        IF n = 34 THEN <<0, 0>> ELSE TwicePlus(number[n + 1], bits[n])
  IN  number[0]

(***************************************************************************)
(* The hash.                                                               *)
(***************************************************************************)
Hex(nibbles) ==
  [i \in 0..31 |-> (nibbles[8 - i \div 4] \div <<1, 2, 4, 8>>[1 + (i % 4)]) % 2]

Xor(v, w) == [i \in 0..31 |-> (v[i] + w[i]) % 2]

\* rrotN(h, 32, 1)
RotateRight(h) == [i \in 0..31 |-> h[(i + 1) % 32]]

do_buz_hash(msg) ==
  LET hash[n \in 0..Len(msg)] ==
        IF n = 0 THEN Hex(<<15, 6, 12, 12, 12, 10, 2, 8>>)
        ELSE Xor(RotateRight(hash[n - 1]), BuzBucket[msg[n]])
  IN  hash[Len(msg)]

\* mutation: the e-mail is left out of the hash
PhoneHash(phone, email) == do_buz_hash(phone)

HashCode(phone, email) == Xor(do_buz_hash(phone), do_buz_hash(email))

(***************************************************************************)
(* The two halves of the UID.                                              *)
(***************************************************************************)
\* the number's lowest two bits take the place of the hash's
LowWord(bits, hash) == [i \in 0..31 |-> IF i < 2 THEN bits[i] ELSE hash[i]]

\* mutation: the number is shifted by one bit only
ShiftedByOne(bits) == [i \in 0..31 |-> bits[i + 1]]

HighWord(bits) == [i \in 0..31 |-> bits[i + 2]]

interleave_nibble(n1, n2) ==
  [b \in 0..63 |-> LET i == 4 * (b \div 8) + (b % 4)
                   IN  IF b % 8 < 4 THEN n2[i] ELSE n1[i]]

deinterleave_nibble(n) ==
  <<[i \in 0..31 |-> n[8 * (i \div 4) + 4 + (i % 4)]],
    [i \in 0..31 |-> n[8 * (i \div 4) + (i % 4)]]>>

\* bits 3, 2, 1, 0 of a nibble become 1, 3, 0, 2
From(b) == CASE b % 4 = 0 -> b + 2 [] b % 4 = 1 -> b - 1
             [] b % 4 = 2 -> b + 1 [] OTHER -> b - 2

permute_nibble_bits3142(nr) == [b \in 0..63 |-> nr[From(b)]]

Mix(bits, hash) ==
  permute_nibble_bits3142(interleave_nibble(HighWord(bits), LowWord(bits, hash)))

gweb_app_get_uid(phone, email) ==
  LET digits == permute_phone_digits(phone_to_int(phone), p_encode)
  IN  Mix(Binary(convert_to_b10int(digits)), HashCode(phone, email))

(***************************************************************************)
(* The UID as text: six bits a character, none for leading zeros.  A       *)
(* character stands for its place in Base64String.                         *)
(***************************************************************************)
Sextet(uid, k) ==
  LET bit(i) == IF i > 63 THEN 0 ELSE uid[i]
  IN  bit(6 * k) + 2 * bit(6 * k + 1) + 4 * bit(6 * k + 2) + 8 * bit(6 * k + 3)
        + 16 * bit(6 * k + 4) + 32 * bit(6 * k + 5)

UidText(uid) ==
  LET last == CHOOSE n \in 0..11 : /\ n = 0 \/ Sextet(uid, n - 1) # 0
                                   /\ \A k \in n..10 : Sextet(uid, k) = 0
  IN  [k \in 1..last |-> Sextet(uid, k - 1)]

\* without a phone or an e-mail the UID is 0, and its text empty
gweb_app_get_uid_str(phone, email, absent) ==
  IF absent \in {phone, email} THEN <<>> ELSE UidText(gweb_app_get_uid(phone, email))

uid_str_to_uid(text) ==
  [b \in 0..63 |-> IF b \div 6 < Len(text)
                   THEN (text[b \div 6 + 1] \div <<1, 2, 4, 8, 16, 32>>[1 + (b % 6)]) % 2
                   ELSE 0]

(***************************************************************************)
(* The way back.                                                           *)
(***************************************************************************)
Unmix(uid) ==
  deinterleave_nibble(permute_nibble_bits3142(permute_nibble_bits3142(
                        permute_nibble_bits3142(uid))))

PhoneBits(halves) ==
  [i \in 0..33 |-> IF i < 2 THEN halves[2][i] ELSE halves[1][i - 2]]

PhoneOf(text) ==
  LET number == Decimal(PhoneBits(Unmix(uid_str_to_uid(text))))
  IN  permute_phone_digits(convert_to_b4int(number), p_decode)

============================================================================
