---------------------------- MODULE UidRegistry ----------------------------
(***************************************************************************)
(* Who gets which UID: the registrations of gweb_mysql_handle_registration *)
(* in any order, with the UIDs that lib/uid.c makes.                       *)
(***************************************************************************)
EXTENDS Uid

CONSTANTS
  People,   \* phones and e-mails that register
  Absent

ASSUME RegistryAssumption ==
  /\ Absent \notin Texts
  /\ \A p \in People : {p.phone, p.email} \subseteq Texts \cup {Absent}

VARIABLES
  accounts,  \* the rows of UserRegInfo and UserPhone, joined
  refused    \* who was the last to be told that his record is a duplicate

vars == <<accounts, refused>>

Init ==
  /\ accounts = {}
  /\ refused = Absent

UidOf == [p \in People |-> gweb_app_get_uid_str(p.phone, p.email, Absent)]

\* gweb_mysql_check_uid_email: an e-mail that is missing is not looked for
Known(p, uid) ==
  \E a \in accounts : a.uid = uid \/ (p.email # Absent /\ a.who.email = p.email)

Register(p) ==
  LET uid == UidOf[p]
  IN  \/ /\ ~Known(p, uid)
         /\ accounts' = accounts \cup {[who |-> p, uid |-> uid]}
         /\ UNCHANGED refused
      \/ /\ Known(p, uid)
         /\ refused' = p
         /\ UNCHANGED accounts

Next == \E p \in People : Register(p)

Spec == Init /\ [][Next]_vars

(***************************************************************************)
(* Properties.                                                             *)
(***************************************************************************)
\* a user who leaves out his phone or his e-mail: his UID is empty
Incomplete(p) == Absent \in {p.phone, p.email}

\* A UID gives back the first ten digits of its user's phone, whatever the
\* hash mixed in, however many leading zeros its number and its text have.
PhoneRecovered ==
  \A a \in accounts :
    ~Incomplete(a.who) => PhoneOf(a.uid) = phone_to_int(a.who.phone)

Digits(p) == IF Incomplete(p) THEN [i \in Nibbles |-> 0] ELSE phone_to_int(p.phone)

Hashed(p) ==
  IF Incomplete(p) THEN [i \in 0..31 |-> 0]
  ELSE Xor(do_buz_hash(p.phone), do_buz_hash(p.email))

\* A registration is refused as a duplicate for its e-mail, or for a UID that
\* is taken; and users whose first ten digits differ never have the same UID.
\* What the UIDs do not tell apart is two users with these digits and e-mails
\* that hash alike, and those who leave out something: they have the UID of ten
\* zeros and a hash of zero.
RefusedForReason ==
  refused # Absent =>
    \E a \in accounts :
      \/ a.who.email = refused.email /\ refused.email # Absent
      \/ /\ Digits(a.who) = Digits(refused)
         /\ \A i \in 2..31 : Hashed(a.who)[i] = Hashed(refused)[i]

============================================================================
