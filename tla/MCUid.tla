------------------------------ MODULE MCUid ------------------------------
(***************************************************************************)
(* Instances of the registry: the phones and e-mails of uid.c's test, and  *)
(* a few at the edges of the code.                                         *)
(***************************************************************************)
EXTENDS UidRegistry, TLC

\* the words of the table for the characters that occur
Buckets ==
  43 :> Hex(<<6, 13, 5, 11, 1, 2, 3, 14>>) @@
  45 :> Hex(<<10, 0, 13, 6, 4, 15, 9, 2>>) @@
  46 :> Hex(<<0, 4, 6, 6, 3, 8, 4, 5>>) @@
  48 :> Hex(<<9, 10, 11, 14, 0, 1, 14, 9>>) @@
  49 :> Hex(<<3, 10, 11, 13, 4, 14, 11, 11>>) @@
  50 :> Hex(<<12, 7, 11, 2, 7, 5, 11, 4>>) @@
  51 :> Hex(<<2, 6, 13, 14, 4, 4, 0, 0>>) @@
  52 :> Hex(<<5, 4, 3, 12, 7, 4, 7, 0>>) @@
  53 :> Hex(<<6, 13, 7, 15, 13, 6, 0, 10>>) @@
  54 :> Hex(<<13, 7, 1, 7, 5, 0, 15, 10>>) @@
  55 :> Hex(<<5, 5, 11, 12, 13, 4, 5, 3>>) @@
  56 :> Hex(<<7, 14, 2, 11, 5, 15, 4, 14>>) @@
  57 :> Hex(<<2, 11, 14, 9, 12, 9, 11, 5>>) @@
  64 :> Hex(<<4, 2, 8, 10, 15, 10, 13, 2>>) @@
  97 :> Hex(<<10, 10, 8, 13, 15, 10, 1, 11>>) @@
  99 :> Hex(<<13, 3, 15, 3, 11, 2, 5, 6>>) @@
  101 :> Hex(<<9, 3, 15, 10, 3, 12, 7, 1>>) @@
  103 :> Hex(<<9, 2, 15, 15, 11, 9, 14, 4>>) @@
  108 :> Hex(<<11, 13, 0, 4, 14, 7, 7, 13>>) @@
  109 :> Hex(<<12, 10, 9, 14, 10, 3, 8, 4>>) @@
  111 :> Hex(<<15, 6, 2, 3, 6, 3, 10, 10>>) @@
  112 :> Hex(<<14, 0, 10, 5, 1, 6, 8, 15>>) @@
  114 :> Hex(<<10, 13, 15, 9, 6, 14, 8, 1>>) @@
  115 :> Hex(<<11, 5, 4, 0, 14, 1, 5, 9>>) @@
  116 :> Hex(<<3, 10, 15, 11, 2, 0, 3, 3>>) @@
  117 :> Hex(<<3, 7, 15, 0, 0, 14, 14, 9>>) @@
  120 :> Hex(<<9, 0, 6, 4, 9, 11, 15, 12>>) @@
  121 :> Hex(<<9, 11, 11, 10, 3, 15, 10, 2>>)

Test == <<116, 101, 115, 116, 64, 101, 120, 97, 109, 112, 108, 101, 46, 99, 111, 109>>      \* test@example.com
Retest == <<114, 101, 116, 101, 115, 116, 64, 101, 120, 97, 109, 112, 108, 101, 46, 99, 111, 109>>    \* retest@example.com
Sample == <<115, 97, 109, 112, 108, 101, 64, 121, 111, 117, 114, 115, 112, 97, 99, 101, 46, 111, 114, 103>>    \* sample@yourspace.org

\* ten times one digit
Times10(c) == [i \in 1..10 |-> c]

User(p, e) == [phone |-> p, email |-> e]

\* e-mails of 33 characters whose first and last are swapped
Swapped(first, last) == <<first>> \o [i \in 1..31 |-> 109] \o <<last>>

\* the test of uid.c
TestPeople ==
  {User(<<48, 49, 50, 51, 52, 53, 54, 55, 56, 57>>, Test),
   User(<<48, 49, 50, 51, 52, 53, 54, 55, 56, 57>>, Retest),
   User(<<48, 49, 48, 49, 48, 49, 48, 49, 48, 49>>, Test),
   User(<<56, 49, 55, 56, 51, 54, 52, 56, 54, 50>>, Sample),
   User(<<48, 48, 48, 48, 48, 49, 48, 48, 48, 50>>, Test),
   User(Times10(49), Sample), User(Times10(48), Test),
   User(<<48, 48, 48, 48, 48, 48, 48, 48, 48, 49>>, Test)}

\* all nines, a number with a sign and a dash, one that is too short, one phone
\* with two e-mails that hash alike, two users without a phone and one without
\* an e-mail
AllPeople == TestPeople \cup
  {User(Times10(57), Retest),
   User(<<43, 48, 49, 45, 50, 51, 52, 53, 54, 55, 56, 57>>, Sample),
   User(<<48, 49>>, Swapped(103, 112)),
   User(Times10(49), Swapped(97, 112)), User(Times10(49), Swapped(112, 97)),
   User(Absent, Swapped(99, 112)), User(Absent, Swapped(112, 99)),
   User(Times10(53), Absent)}

===========================================================================
