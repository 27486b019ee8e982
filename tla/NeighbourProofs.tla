-------------------------- MODULE NeighbourProofs --------------------------
(***************************************************************************)
(* On a host at UTC or east of it no expired place is ever shown, and on   *)
(* one at UTC or west of it no unexpired neighbour is left out of an       *)
(* answer with room, however many users, places and seconds there are.     *)
(***************************************************************************)
EXTENDS NeighbourProperties, FiniteSetTheorems, TLAPS

\* The inductive invariant: the question was asked before now, what the query
\* fetched are rows of the table, and nothing is left over from the last one.
FreshInv ==
  /\ now \in Nat /\ since \in Int /\ since <= now
  /\ places \subseteq Place
  /\ rest \subseteq Place
  /\ own # Absent => own \in Place
  /\ shown \subseteq Place
  /\ at = "idle" => own = Absent /\ shown = {}
  /\ NeighboursFresh

\* A place stored by a location message is a row of the table.
LEMMA StoredPlace ==
  ASSUME now \in Int, NEW m \in Messages
  PROVE  PlaceOf(m) \in Place
<1>1. m \in [uid : Uids, pos : Int, expiry : Int \cup {Absent},
             radius : Int \cup {Absent}]
  BY NeighboursAssumption
<1>2. OrElse(m.expiry, DefaultExpiry) \in Int
  BY <1>1, NeighboursAssumption DEF OrElse
<1>3. OrElse(m.radius, DefaultRadius) \in Int
  BY <1>1, NeighboursAssumption DEF OrElse
<1> QED
  BY <1>1, <1>2, <1>3 DEF PlaceOf, Place

\* What the code takes for unexpired had not expired when the query arrived.
LEMMA NotExpiredThen ==
  ASSUME Zone >= 0, now \in Int, since \in Int, since <= now,
         NEW q \in Place, ~Expired(q)
  PROVE  Unexpired(q, since)
<1>1. q.seen \in Int /\ q.expiry \in Int /\ Zone \in Int
  BY NeighboursAssumption DEF Place
<1> QED
  BY <1>1 DEF Expired, Unexpired

LEMMA FreshInit == Init => FreshInv
  BY DEF Init, FreshInv, NeighboursFresh

\* A fetched row goes out of the result; the loop keeps everything else.
LEMMA FetchedKeeps ==
  ASSUME FreshInv, at = "rows", NEW q \in rest, NEW records, Fetched(q, records),
         \A r \in records : r \in Place /\ Unexpired(r, since)
  PROVE  FreshInv'
<1>1. UNCHANGED <<now, since, own, places>>
  BY DEF Fetched, tableVars
<1>2. at' # "idle" /\ shown' = records /\ rest' \subseteq rest
  BY DEF Fetched
<1>3. NeighboursFresh'
  BY <1>1, <1>2 DEF NeighboursFresh, FreshInv, Unexpired
<1> QED
  BY <1>1, <1>2, <1>3 DEF FreshInv

LEMMA FreshStep ==
  ASSUME Zone >= 0, FreshInv, [Next]_vars
  PROVE  FreshInv'
<1> USE DEF tableVars, queryVars
<1>1. CASE Tick
  BY <1>1 DEF Tick, FreshInv, NeighboursFresh, Unexpired
<1>2. ASSUME NEW u \in Uids, Register(u)
      PROVE  FreshInv'
  BY <1>2 DEF Register, FreshInv, NeighboursFresh, Unexpired
<1>3. ASSUME NEW m \in Messages, SetLocation(m)
      PROVE  FreshInv'
  <2>1. places' \subseteq Place
    BY <1>3, StoredPlace DEF SetLocation, FreshInv
  <2> QED
    BY <1>3, <2>1 DEF SetLocation, FreshInv, NeighboursFresh, Unexpired
<1>4. ASSUME NEW u \in Uids, NEW r \in Radii \cup {Absent}, Ask(u, r)
      PROVE  FreshInv'
  BY <1>4 DEF Ask, FreshInv, NeighboursFresh
<1>5. ASSUME NEW http, at' = "reply", Answer(http)
      PROVE  FreshInv'
  BY <1>5 DEF Answer, FreshInv, NeighboursFresh, Unexpired
<1>6. CASE AskNobody
  BY <1>5, <1>6 DEF AskNobody, Answer
<1>7. CASE CheckAsker
  <2>1. CASE \E http : Answer(http)
    BY <1>5, <2>1 DEF Answer
  <2>2. CASE at' = "own" /\ UNCHANGED <<now, tableVars, asker, radius, since, own,
                                         rest, shown, status>>
    BY <2>2 DEF FreshInv, NeighboursFresh, Unexpired
  <2> QED
    BY <1>7, <2>1, <2>2 DEF CheckAsker
<1>8. CASE OwnPlace
  <2>1. CASE \E http : Answer(http)
    BY <1>5, <2>1 DEF Answer
  <2>2. ASSUME NEW q \in places, ~Expired(q), at' = "others", own' = q,
               UNCHANGED <<now, tableVars, asker, radius, since, rest, shown, status>>
        PROVE  FreshInv'
    <3>1. q \in Place /\ Unexpired(q, since)
      BY <2>2, NotExpiredThen DEF FreshInv
    <3> QED
      BY <2>2, <3>1 DEF FreshInv, NeighboursFresh, Unexpired
  <2> QED
    BY <1>8, <2>1, <2>2 DEF OwnPlace
<1>9. CASE OtherPlaces
  <2>1. CASE \E http : Answer(http)
    BY <1>5, <2>1 DEF Answer
  <2>2. CASE at' = "rows" /\ rest' \subseteq places
             /\ UNCHANGED <<now, tableVars, asker, radius, since, own, shown, status>>
    BY <2>2 DEF FreshInv, NeighboursFresh, Unexpired
  <2> QED
    BY <1>9, <2>1, <2>2 DEF OtherPlaces
<1>10. CASE SkipExpired
  <2>1. PICK q \in Nearest : Expired(q) /\ Fetched(q, shown)
    BY <1>10 DEF SkipExpired
  <2> QED
    BY <1>10, <2>1, FetchedKeeps DEF SkipExpired, Nearest, FreshInv, NeighboursFresh
<1>11. CASE NameRow
  <2>1. PICK q \in Nearest : ~Expired(q)
                             /\ (Fetched(q, shown \cup {q}) \/ Fetched(q, shown))
    BY <1>11 DEF NameRow
  <2>2. q \in Place /\ Unexpired(q, since)
    BY <2>1, NotExpiredThen DEF Nearest, FreshInv
  <2>3. \A r \in shown \cup {q} : r \in Place /\ Unexpired(r, since)
    BY <2>2 DEF FreshInv, NeighboursFresh
  <2> QED
    BY <1>11, <2>1, <2>3, FetchedKeeps DEF NameRow, Nearest
<1>12. CASE Reply
  BY <1>12 DEF Reply, FreshInv, NeighboursFresh
<1>13. CASE UNCHANGED vars
  BY <1>13 DEF vars, FreshInv, NeighboursFresh, Unexpired
<1> QED
  BY <1>1, <1>2, <1>3, <1>4, <1>6, <1>7, <1>8, <1>9, <1>10, <1>11, <1>12, <1>13
  DEF Next, QueryStep

\* With a host clock at UTC or ahead of it, mktime makes places look older
\* than they are, never younger: whatever a neighbour query shows was still
\* valid when the query arrived.
THEOREM NeighboursFreshHolds ==
  ASSUME Zone >= 0
  PROVE  Spec => []NeighboursFresh
<1>1. Init => FreshInv
  BY FreshInit
<1>2. FreshInv /\ [Next]_vars => FreshInv'
  BY FreshStep
<1>3. FreshInv => NeighboursFresh
  BY DEF FreshInv
<1> QED
  BY <1>1, <1>2, <1>3, PTL DEF Spec

(***************************************************************************)
(* The table and the query at each of its commands.                        *)
(***************************************************************************)
\* The inductive invariant: a query has found and shown nothing before its
\* rows are fetched, and it shows finitely many of them.
TypeInv ==
  /\ TypeOK
  /\ IsFiniteSet(shown)
  /\ at \notin {"rows", "reply"} => rest = {} /\ shown = {}

LEMMA TypeInit == Init => TypeInv
<1>1. IsFiniteSet({}) /\ Cardinality({}) = 0
  BY FS_EmptySet
<1>2. MaxRows \in Nat /\ Horizon \in Nat
  BY NeighboursAssumption
<1> QED
  BY <1>1, <1>2 DEF Init, TypeInv, TypeOK

\* What a query has not touched stays true of the next command.
LEMMA AnswerTyped ==
  ASSUME TypeInv, at \notin {"rows", "reply"}, NEW http, Answer(http)
  PROVE  TypeInv'
<1>1. UNCHANGED <<now, users, places, asker, since, own, rest, shown>> /\ at' = "reply"
  BY DEF Answer, tableVars
<1> QED
  BY <1>1 DEF TypeInv, TypeOK

\* The loop takes a row out of what it found, and its response has room.
LEMMA FetchedTyped ==
  ASSUME TypeInv, at = "rows", NEW q \in rest, NEW records, Fetched(q, records),
         records \in {shown, shown \cup {q}}
  PROVE  TypeInv'
<1>1. UNCHANGED <<now, users, places, asker, since, own>>
  BY DEF Fetched, tableVars
<1>2. rest' = rest \ {q} /\ shown' = records
  BY DEF Fetched
<1>3. at' = IF rest' = {} \/ Cardinality(shown') = MaxRows THEN "reply" ELSE "rows"
  BY DEF Fetched
<1>4. IsFiniteSet(shown) /\ Cardinality(shown) \in Nat /\ Cardinality(shown) < MaxRows
  BY FS_CardinalityType DEF TypeInv, TypeOK
<1>5. IsFiniteSet(shown') /\ Cardinality(shown') \in Nat
      /\ Cardinality(shown') <= Cardinality(shown) + 1
  <2>1. CASE shown' = shown
    BY <1>4, <2>1
  <2>2. CASE shown' = shown \cup {q}
    BY <1>4, <2>2, FS_AddElement
  <2> QED
    BY <1>2, <2>1, <2>2
<1>6. Cardinality(shown') <= MaxRows
  BY <1>4, <1>5, NeighboursAssumption
<1>7. rest' \cup shown' \subseteq places'
  BY <1>1, <1>2 DEF TypeInv, TypeOK
<1>8. at' = "rows" => rest' # {} /\ Cardinality(shown') < MaxRows
  BY <1>3, <1>5, <1>6, NeighboursAssumption
<1> QED
  BY <1>1, <1>3, <1>5, <1>6, <1>7, <1>8 DEF TypeInv, TypeOK

LEMMA TypeStep ==
  ASSUME TypeInv, [Next]_vars
  PROVE  TypeInv'
<1> USE DEF tableVars, queryVars
<1>1. CASE Tick
  <2>1. now' \in 0..Horizon /\ \A t \in 0..now : t \in 0..now'
    BY <1>1, NeighboursAssumption DEF Tick, TypeInv, TypeOK
  <2> QED
    BY <1>1, <2>1 DEF Tick, TypeInv, TypeOK
<1>2. ASSUME NEW u \in Uids, Register(u)
      PROVE  TypeInv'
  BY <1>2 DEF Register, TypeInv, TypeOK
<1>3. ASSUME NEW m \in Messages, SetLocation(m)
      PROVE  TypeInv'
  <2>1. now \in Int /\ now \in 0..now
    BY NeighboursAssumption DEF TypeInv, TypeOK
  <2>2. PlaceOf(m) \in Place /\ PlaceOf(m).uid = m.uid /\ PlaceOf(m).seen = now
    BY <2>1, StoredPlace DEF PlaceOf
  <2>3. /\ places' \subseteq Place
        /\ \A q \in places' : q.seen \in 0..now
        /\ \A q, r \in places' : q.uid = r.uid => q = r
    BY <1>3, <2>1, <2>2 DEF SetLocation, TypeInv, TypeOK
  <2>4. at' = "idle" /\ rest' = {} /\ shown' = {}
        /\ UNCHANGED <<now, users, since, at, asker, own, rest, shown>>
    BY <1>3 DEF SetLocation, TypeInv
  <2> QED
    BY <2>3, <2>4 DEF TypeInv, TypeOK
<1>4. ASSUME NEW u \in Uids, NEW r \in Radii \cup {Absent}, Ask(u, r)
      PROVE  TypeInv'
  <2>1. now \in 0..now
    BY NeighboursAssumption DEF TypeInv, TypeOK
  <2> QED
    BY <1>4, <2>1 DEF Ask, TypeInv, TypeOK
<1>5. CASE AskNobody
  BY <1>5, AnswerTyped DEF AskNobody
<1>6. CASE CheckAsker
  <2>1. CASE Answer("404")
    BY <1>6, <2>1, AnswerTyped DEF CheckAsker
  <2>2. CASE at' = "own" /\ UNCHANGED <<now, tableVars, asker, radius, since, own,
                                         rest, shown, status>>
    BY <1>6, <2>2 DEF CheckAsker, TypeInv, TypeOK
  <2> QED
    BY <1>6, <2>1, <2>2 DEF CheckAsker
<1>7. CASE OwnPlace
  <2>1. CASE Answer("404")
    BY <1>7, <2>1, AnswerTyped DEF OwnPlace
  <2>2. ASSUME NEW q \in places, at' = "others", own' = q,
               UNCHANGED <<now, tableVars, asker, radius, since, rest, shown, status>>
        PROVE  TypeInv'
    BY <1>7, <2>2 DEF OwnPlace, TypeInv, TypeOK
  <2> QED
    BY <1>7, <2>1, <2>2 DEF OwnPlace
<1>8. CASE OtherPlaces
  <2>1. CASE \E http : Answer(http)
    BY <1>8, <2>1, AnswerTyped DEF OtherPlaces
  <2>2. CASE /\ at' = "rows" /\ rest' \subseteq places /\ rest' # {}
             /\ UNCHANGED <<now, tableVars, asker, radius, since, own, shown, status>>
    <3>1. Cardinality(shown) < MaxRows
      BY <1>8, FS_EmptySet, NeighboursAssumption DEF OtherPlaces, TypeInv
    <3> QED
      BY <1>8, <2>2, <3>1 DEF OtherPlaces, TypeInv, TypeOK
  <2> QED
    BY <1>8, <2>1, <2>2 DEF OtherPlaces
<1>9. CASE SkipExpired
  BY <1>9, FetchedTyped DEF SkipExpired, Nearest
<1>10. CASE NameRow
  BY <1>10, FetchedTyped DEF NameRow, Nearest
<1>11. CASE Reply
  <2>1. IsFiniteSet({}) /\ Cardinality({}) = 0 /\ 0 <= MaxRows /\ 0 \in 0..now
    BY FS_EmptySet, NeighboursAssumption DEF TypeInv, TypeOK
  <2> QED
    BY <1>11, <2>1 DEF Reply, TypeInv, TypeOK
<1>12. CASE UNCHANGED vars
  BY <1>12 DEF vars, TypeInv, TypeOK
<1> QED
  BY <1>1, <1>2, <1>3, <1>4, <1>5, <1>6, <1>7, <1>8, <1>9, <1>10, <1>11, <1>12
  DEF Next, QueryStep

\* Whatever expires and fails, a user has one place at most, seen in the past,
\* and an answer is made of rows of the table and never overfills.
THEOREM NeighboursTypeCorrect == Spec => []TypeOK
<1>1. TypeInv => TypeOK
  BY DEF TypeInv
<1> QED
  BY <1>1, TypeInit, TypeStep, PTL DEF Spec

(***************************************************************************)
(* What an answer leaves out.                                              *)
(***************************************************************************)
\* The inductive invariant: who the loop has passed over had expired by then
\* and still has; whom it shows is no farther than whom it has yet to fetch;
\* and it has ended because nothing is left or the answer is full.
PassedOver ==
  \A q \in places \ (rest \cup shown) :
    Within(q) /\ q.uid \in users => ~Unexpired(q, now)

NearestFirst ==
  \A q \in rest, r \in shown : Distance(own.pos, r.pos) <= Distance(own.pos, q.pos)

CompleteInv ==
  /\ at = "idle" => status = "none"
  /\ at = "rows" => PassedOver /\ NearestFirst
  /\ at = "reply" /\ status = "200" =>
       PassedOver /\ NearestFirst /\ (rest = {} \/ Cardinality(shown) = MaxRows)

\* What the code takes for expired has expired, and stays so.
LEMMA ExpiredSince ==
  ASSUME Zone <= 0, now \in Int, NEW q \in Place, Expired(q)
  PROVE  ~Unexpired(q, now)
<1>1. q.seen \in Int /\ q.expiry \in Int /\ Zone \in Int
  BY NeighboursAssumption DEF Place
<1> QED
  BY <1>1 DEF Expired, Unexpired

LEMMA StaysExpired ==
  ASSUME NEW q \in Place, NEW s \in Int, NEW t \in Int, s <= t, ~Unexpired(q, s)
  PROVE  ~Unexpired(q, t)
<1>1. q.seen \in Int /\ q.expiry \in Int
  BY DEF Place
<1> QED
  BY <1>1 DEF Unexpired

\* A fetched row is shown, or had expired, or has no user.
LEMMA FetchedComplete ==
  ASSUME TypeInv, CompleteInv, at = "rows", NEW q \in Nearest, NEW records,
         Fetched(q, records),
         \/ records = shown \cup {q}
         \/ records = shown /\ (q.uid \notin users \/ ~Unexpired(q, now))
  PROVE  CompleteInv'
<1>1. UNCHANGED <<now, users, places, asker, radius, own>>
  BY DEF Fetched, tableVars
<1>2. rest' = rest \ {q} /\ shown' = records
  BY DEF Fetched
<1>3. /\ at' = "rows" \/ (at' = "reply" /\ (rest' = {} \/ Cardinality(shown') = MaxRows))
  BY DEF Fetched
<1>4. PassedOver /\ NearestFirst /\ q \in rest
  BY DEF CompleteInv, Nearest
<1>5. PassedOver'
  BY <1>1, <1>2, <1>4 DEF PassedOver, Within, Unexpired
<1>6. NearestFirst'
  <2>1. \A r \in rest : Distance(own.pos, q.pos) <= Distance(own.pos, r.pos)
    BY DEF Nearest
  <2>2. \A r, s : Distance(own.pos, r)' = Distance(own.pos, r)
    BY <1>1 DEF Distance
  <2> QED
    BY <1>1, <1>2, <1>4, <2>1, <2>2 DEF NearestFirst, Distance
<1> QED
  BY <1>3, <1>5, <1>6 DEF CompleteInv

LEMMA CompleteStep ==
  ASSUME Zone <= 0, "name" \notin Faults, TypeInv, CompleteInv, [Next]_vars
  PROVE  CompleteInv'
<1> USE DEF tableVars, queryVars
<1>0. now \in Int /\ places \subseteq Place
  BY NeighboursAssumption DEF TypeInv, TypeOK
<1>1. CASE Tick
  <2>1. \A q \in places : ~Unexpired(q, now) => ~Unexpired(q, now')
    BY <1>0, <1>1, StaysExpired DEF Tick
  <2>2. PassedOver => PassedOver'
    BY <1>1, <2>1 DEF Tick, PassedOver, Within, Unexpired
  <2> QED
    BY <1>1, <2>2 DEF Tick, CompleteInv, NearestFirst, Distance
<1>2. ASSUME NEW u \in Uids, Register(u)
      PROVE  CompleteInv'
  BY <1>2 DEF Register, CompleteInv
<1>3. ASSUME NEW m \in Messages, SetLocation(m)
      PROVE  CompleteInv'
  BY <1>3 DEF SetLocation, CompleteInv
<1>4. ASSUME NEW u \in Uids, NEW r \in Radii \cup {Absent}, Ask(u, r)
      PROVE  CompleteInv'
  BY <1>4 DEF Ask, CompleteInv
<1>5. CASE Answer("404")
  BY <1>5 DEF Answer, CompleteInv
<1>6. CASE AskNobody
  BY <1>5, <1>6 DEF AskNobody
<1>7. CASE CheckAsker
  BY <1>5, <1>7 DEF CheckAsker, CompleteInv
<1>8. CASE OwnPlace
  BY <1>5, <1>8 DEF OwnPlace, CompleteInv
<1>9. CASE OtherPlaces
  <2>1. rest = {} /\ shown = {}
    BY <1>9 DEF OtherPlaces, TypeInv
  <2>2. CASE {q \in places : Within(q)} = {} /\ Answer("200")
    <3>1. UNCHANGED <<now, users, places, asker, radius, own, rest, shown>>
      BY <2>2 DEF Answer
    <3>2. PassedOver' /\ NearestFirst' /\ rest' = {}
      BY <2>1, <2>2, <3>1 DEF PassedOver, NearestFirst, Within
    <3> QED
      BY <2>2, <3>2 DEF Answer, CompleteInv
  <2>3. CASE /\ at' = "rows" /\ rest' = {q \in places : Within(q)}
             /\ UNCHANGED <<now, tableVars, asker, radius, since, own, shown, status>>
    <3>1. PassedOver' /\ NearestFirst'
      BY <2>1, <2>3 DEF PassedOver, NearestFirst, Within
    <3> QED
      BY <2>3, <3>1 DEF CompleteInv
  <2> QED
    BY <1>5, <1>9, <2>2, <2>3 DEF OtherPlaces
<1>10. CASE SkipExpired
  <2>1. PICK q \in Nearest : Expired(q) /\ Fetched(q, shown)
    BY <1>10 DEF SkipExpired
  <2>2. ~Unexpired(q, now)
    BY <1>0, <2>1, ExpiredSince DEF Nearest, TypeInv, TypeOK
  <2> QED
    BY <1>10, <2>1, <2>2, FetchedComplete DEF SkipExpired
<1>11. CASE NameRow
  BY <1>11, FetchedComplete DEF NameRow
<1>12. CASE Reply
  BY <1>12 DEF Reply, CompleteInv
<1>13. CASE UNCHANGED vars
  BY <1>13 DEF vars, CompleteInv, PassedOver, NearestFirst, Within, Unexpired, Distance
<1> QED
  BY <1>1, <1>2, <1>3, <1>4, <1>6, <1>7, <1>8, <1>9, <1>10, <1>11, <1>12, <1>13
  DEF Next, QueryStep

\* On a host at UTC or west of it, where no place looks older than it is, and
\* when no name's lookup fails, an answer leaves out a registered neighbour at
\* an unexpired place only if it is full of nearer ones, however many places
\* there are and however the clock runs while they are fetched.
THEOREM NeighboursCompleteHolds ==
  ASSUME Zone <= 0, "name" \notin Faults
  PROVE  Spec => []NeighboursComplete
<1>1. Init => CompleteInv
  BY DEF Init, CompleteInv
<1>2. CompleteInv => NeighboursComplete
  BY DEF CompleteInv, NeighboursComplete, PassedOver, NearestFirst
<1>3. Init => TypeInv
  BY TypeInit
<1>4. TypeInv /\ [Next]_vars => TypeInv'
  BY TypeStep
<1>5. TypeInv /\ CompleteInv /\ [Next]_vars => CompleteInv'
  BY CompleteStep
<1> QED
  BY <1>1, <1>2, <1>3, <1>4, <1>5, PTL DEF Spec

============================================================================
