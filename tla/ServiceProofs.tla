---------------------------- MODULE ServiceProofs ----------------------------
(***************************************************************************)
(* What the update handlers promise under some faults.                     *)
(***************************************************************************)
EXTENDS UpdateProofs

(***************************************************************************)
(* The session between two transactions.                                   *)
(***************************************************************************)
RestInv == QuietInv /\ ("reject" \notin Faults => NoTransactionAtRest)

LEMMA LookupCommand ==
  Lookup => (Answered \/ NotAnswered) /\ Resting
BY DEF Lookup, CheckRegistration, CheckAvatar, CheckProfile, CheckBothUids,
       CheckPreference, CheckLocation, LookupAddress, LookupFacebook,
       LookupTwitter, LookupRequest, LookupPublic, LookupChannel,
       LookupLocation, At, Resting, AtRest

\* a session nobody disturbs, or nobody refuses, is quiet after any command
\* but those of an open transaction
LEMMA QuietCommand ==
  ASSUME "drop" \notin Faults => link = "up",
         \/ Answered \/ NotAnswered \/ Started \/ Committed \/ CommittedUnheard
         \/ RolledBack \/ LoseConnection \/ NewSession \/ UNCHANGED sessionVars
         \/ \E s : Executed(s) \/ Refused(s) \/ ExecutedUnheard(s)
  PROVE  "drop" \notin Faults => link' = "up"
BY DEF Answered, NotAnswered, Started, Committed, CommittedUnheard, RolledBack,
       LoseConnection, NewSession, sessionVars, Executed, Refused, ExecutedUnheard

LEMMA OneCommand ==
  [Next]_vars =>
    \/ Answered \/ NotAnswered \/ Started \/ Committed \/ CommittedUnheard
    \/ RolledBack \/ LoseConnection \/ NewSession \/ UNCHANGED sessionVars
    \/ \E s : Executed(s) \/ Refused(s) \/ ExecutedUnheard(s)
BY LookupCommand
   DEF Next, Receive, Ping, RequestWithoutFlag, StartTransaction, ExecStatement,
       FailStatement, Commit, Rollback, Reply, Disconnect, Restart, vars

LEMMA QuietKept ==
  ASSUME TypeOK, KeptInv, QuietInv, [Next]_vars
  PROVE  QuietInv'
<1>1. "drop" \notin Faults => link' = "up"
  BY OneCommand, QuietCommand DEF QuietInv
<1>2. ASSUME Calm, "drop" \in Faults, AtRest' PROVE ~inTrans'
  <2>1. "outage" \notin Faults /\ "reject" \notin Faults
    BY <1>2 DEF Calm
  <2>2. AtRest => ~inTrans
    BY <1>2 DEF QuietInv
  <2>3. ASSUME Answered \/ NotAnswered \/ LoseConnection \/ NewSession
                 \/ UNCHANGED sessionVars, AtRest
        PROVE  ~inTrans'
    BY <2>2, <2>3 DEF Answered, NotAnswered, LoseConnection, NewSession, sessionVars
  <2>4. CASE FailStatement
    <3>1. ~Refused(Head(plan)) /\ ~ExecutedUnheard(Head(plan))
      BY <2>1, <2>4, KeyStillFree
         DEF FailStatement, Refused, ExecutedUnheard, CheckedKeyIsFree
    <3> QED BY <2>1, <2>4, <3>1 DEF FailStatement, NotAnswered
  <2>5. CASE Commit \/ Rollback
    BY <2>1, <2>5 DEF Commit, Rollback, Committed, CommittedUnheard, RolledBack,
                      NotAnswered
  <2>6. CASE StartTransaction \/ ExecStatement
    BY <1>2, <2>6 DEF StartTransaction, ExecStatement, Go, AfterStatement, AtRest
  <2>7. CASE RequestWithoutFlag \/ Restart
    BY <2>7 DEF RequestWithoutFlag, Restart, NewSession
  <2>8. CASE Ping
    BY <1>2, <2>3, <2>8 DEF Ping, AtRest
  <2>9. CASE Lookup
    BY <2>3, <2>9, LookupCommand DEF Resting
  <2>10. CASE \E m \in Messages : Receive(m)
    BY <2>3, <2>10 DEF Receive, AtRest
  <2>11. CASE Reply
    BY <2>3, <2>11 DEF Reply, AtRest
  <2>12. CASE Disconnect \/ UNCHANGED vars
    BY <1>2, <2>3, <2>12 DEF Disconnect, AtRest, vars, handlerVars
  <2> QED
    BY <2>4, <2>5, <2>6, <2>7, <2>8, <2>9, <2>10, <2>11, <2>12 DEF Next
<1> QED BY <1>1, <1>2 DEF QuietInv

LEMMA RestInvInit == Init => RestInv
BY DEF Init, SessionInit, RestInv, QuietInv, NoTransactionAtRest

LEMMA RestInvKept ==
  ASSUME TypeOK, KeptInv, RestInv, [Next]_vars
  PROVE  RestInv'
BY QuietKept, RestKept DEF RestInv

\* between two transactions nothing changes what the session sees
LEMMA SteadyCommand ==
  ASSUME Steady, KeptInv, RestInv, AtRest,
         Answered \/ NotAnswered \/ LoseConnection \/ UNCHANGED sessionVars
  PROVE  db' = db /\ view' = view
<1>1. CASE "reject" \notin Faults
  BY <1>1 DEF KeptInv, SessionInv, RestInv, NoTransactionAtRest, AtRest, Answered,
              NotAnswered, LoseConnection, sessionVars
<1>2. CASE "drop" \notin Faults
  BY <1>2 DEF RestInv, QuietInv, Answered, NotAnswered, LoseConnection, sessionVars
<1> QED BY <1>1, <1>2 DEF Steady

\* a lookup never fails
LEMMA CalmCommand ==
  ASSUME Calm, QuietInv, AtRest
  PROVE  ~NotAnswered /\ ~Lost
BY DEF Calm, QuietInv, NotAnswered, LoseConnection, Lost

(***************************************************************************)
(* One row per handle, channel and preference: the statements.             *)
(***************************************************************************)
LEMMA ReplacedNames ==
  /\ ReplacedTables \subseteq TableNames
  /\ Social \in ReplacedTables /\ Channel \in ReplacedTables
  /\ Preference \in ReplacedTables
  /\ Social # Channel /\ Social # Preference /\ Channel # Preference
  /\ ReplacedTables \cap KeptTables = {}
BY DEF ReplacedTables, KeptTables, TableNames, RegInfo, Phone, Address, Social,
       Request, Channel, Preference, Location

LEMMA AddFresh ==
  ASSUME NEW rows, NoDuplicates(rows), NEW new, NoDuplicates(new),
         \A r \in new : r.key \notin Keys(rows)
  PROVE  NoDuplicates(AddRows(rows, new))
<1> DEFINE added(r) ==
      [key |-> r.key, val |-> r.val, id |-> r.id + LastId(rows, r.key)]
<1>1. AddRows(rows, new) = rows \cup {added(r) : r \in new}
  BY DEF AddRows
<1>2. \A r : added(r).key = r.key
  OBVIOUS
<1> HIDE DEF added
<1>3. \A r \in new, s \in rows : r.key # s.key
  BY DEF Keys
<1>4. \A x \in AddRows(rows, new) : x \in rows \/ \E r \in new : x = added(r)
  BY <1>1
<1> HIDE <1>1
<1> QED BY <1>2, <1>3, <1>4 DEF NoDuplicates

\* a key is there after a statement because it was and stays, or is inserted
LEMMA KeyAfter ==
  ASSUME NEW s, StatementOK(s), NEW t, TablesOK(t), NEW T \in TableNames,
         NEW k \in Keys(Apply(s, t)[T])
  PROVE  \/ k \in Keys(t[T]) /\ ~Deletes(s, T, k)
         \/ InsertsInto(s, T) /\ k \in Keys(s.rows)
<1>1. CASE s.table # T
  BY <1>1, ApplyTable DEF Deletes
<1>2. CASE InsertsInto(s, T)
  BY <1>2, ApplyTable, AddKeys DEF InsertsInto, Deletes
<1>3. CASE s.table = T /\ s.op = "update"
  BY <1>3, ApplyTable, SetKeys DEF Deletes
<1>4. CASE s.table = T /\ s.op = "delete"
  BY <1>4, ApplyTable DEF Deletes, DropRows, Keys
<1> QED BY <1>1, <1>2, <1>3, <1>4 DEF StatementOK, InsertsInto

LEMMA PlanShape ==
  ASSUME NEW p, PlanOK(p), p # <<>>
  PROVE  /\ 1 \in DOMAIN p /\ Head(p) = p[1] /\ StatementOK(p[1])
         /\ \A i \in DOMAIN Tail(p) :
              i \in Nat /\ i >= 1 /\ i + 1 \in DOMAIN p /\ Tail(p)[i] = p[i + 1]
BY DEF PlanOK

LEMMA FreshHead ==
  ASSUME NEW p, PlanOK(p), p # <<>>, NEW t, TablesOK(t), FreshPlan(p, t),
         NEW T \in ReplacedTables, NoDuplicates(t[T])
  PROVE  NoDuplicates(Apply(Head(p), t)[T])
<1> DEFINE s == Head(p)
<1>1. 1 \in DOMAIN p /\ s = p[1] /\ StatementOK(s) /\ T \in TableNames
  BY PlanShape, ReplacedNames
<1>2. InsertsInto(p[1], T) =>
        NoDuplicates(p[1].rows) /\ \A r \in p[1].rows : r.key \notin Keys(t[T])
  BY <1>1 DEF FreshPlan
<1> HIDE DEF s
<1>3. CASE s.table # T
  BY <1>1, <1>3, ApplyTable
<1>4. CASE InsertsInto(s, T)
  BY <1>1, <1>2, <1>4, ApplyTable, AddFresh DEF InsertsInto
<1>5. CASE s.table = T /\ s.op = "update"
  BY <1>1, <1>5, ApplyTable, SetUnique
<1>6. CASE s.table = T /\ s.op = "delete"
  BY <1>1, <1>6, ApplyTable, DropUnique
<1> QED BY <1>1, <1>3, <1>4, <1>5, <1>6 DEF StatementOK, InsertsInto, s

LEMMA FreshTail ==
  ASSUME NEW p, PlanOK(p), p # <<>>, NEW t, TablesOK(t), FreshPlan(p, t)
  PROVE  FreshPlan(Tail(p), Apply(Head(p), t))
<1> DEFINE q == Tail(p)
           w == Apply(Head(p), t)
<1>1. /\ 1 \in DOMAIN p /\ StatementOK(p[1]) /\ w = Apply(p[1], t)
      /\ \A i \in DOMAIN q :
           i \in Nat /\ i >= 1 /\ i + 1 \in DOMAIN p /\ q[i] = p[i + 1]
  BY PlanShape
<1>2. \A i \in DOMAIN q : \A j \in 1..(i - 1) : j \in DOMAIN q
  BY DEF PlanOK
<1> HIDE DEF q, w
<1>3. ASSUME NEW i \in DOMAIN q, NEW T \in ReplacedTables, InsertsInto(q[i], T)
      PROVE  /\ NoDuplicates(q[i].rows)
             /\ \A r \in q[i].rows :
                  /\ r.key \in Keys(w[T]) =>
                       \E j \in 1..(i - 1) : Deletes(q[j], T, r.key)
                  /\ \A j \in 1..(i - 1) :
                       InsertsInto(q[j], T) => r.key \notin Keys(q[j].rows)
  <2>1. /\ NoDuplicates(q[i].rows)
        /\ \A r \in q[i].rows :
             /\ r.key \in Keys(t[T]) => \E j \in 1..i : Deletes(p[j], T, r.key)
             /\ \A j \in 1..i : InsertsInto(p[j], T) => r.key \notin Keys(p[j].rows)
    <3>1. i + 1 \in DOMAIN p /\ q[i] = p[i + 1] /\ (i + 1) - 1 = i
      BY <1>1
    <3> QED BY <1>3, <3>1 DEF FreshPlan
  <2>2. ASSUME NEW r \in q[i].rows, r.key \in Keys(w[T])
        PROVE  \E j \in 1..(i - 1) : Deletes(q[j], T, r.key)
    <3>1. 1 \in 1..i
      BY <1>1
    <3>2. r.key \in Keys(t[T]) /\ ~Deletes(p[1], T, r.key)
      BY <1>1, <2>1, <2>2, <3>1, KeyAfter, ReplacedNames
    <3>3. PICK j \in 1..i : Deletes(p[j], T, r.key)
      BY <2>1, <3>2
    <3>4. j # 1
      BY <3>2, <3>3
    <3>5. j - 1 \in 1..(i - 1) /\ j - 1 + 1 = j
      BY <1>1, <3>4
    <3>6. q[j - 1] = p[j]
      BY <1>1, <1>2, <3>5
    <3> QED BY <3>3, <3>5, <3>6
  <2>3. ASSUME NEW r \in q[i].rows, NEW j \in 1..(i - 1), InsertsInto(q[j], T)
        PROVE  r.key \notin Keys(q[j].rows)
    <3>1. q[j] = p[j + 1] /\ j + 1 \in 1..i
      BY <1>1, <1>2
    <3> QED BY <2>1, <2>3, <3>1
  <2> QED BY <2>1, <2>2, <2>3
<1> QED BY <1>3 DEF FreshPlan, q, w

(***************************************************************************)
(* One row per handle, channel and preference: the plans.                  *)
(***************************************************************************)
NoInserts(p) == \A i \in DOMAIN p, T \in ReplacedTables : ~InsertsInto(p[i], T)

LEMMA NoInsertsFresh ==
  ASSUME NEW p, NoInserts(p), NEW v
  PROVE  FreshPlan(p, v) /\ \A point : HalfBuilt(p, point)
BY DEF NoInserts, FreshPlan, HalfBuilt

LEMMA EmptyNoInserts == NoInserts(<<>>)
<1>1. DOMAIN <<>> = {}
  OBVIOUS
<1> QED BY <1>1 DEF NoInserts

LEMMA OtherTable ==
  ASSUME NEW s, s.table \notin ReplacedTables \/ s.op # "insert"
  PROVE  NoInserts(<<s>>)
<1>1. DOMAIN <<s>> = {1} /\ <<s>>[1] = s
  OBVIOUS
<1> QED BY <1>1 DEF NoInserts, InsertsInto

LEMMA FreshConcat ==
  ASSUME NEW p, PlanOK(p), NEW q, PlanOK(q), NEW v, FreshPlan(p, v),
         FreshPlan(q, v),
         \A i \in DOMAIN p, j \in DOMAIN q, T \in ReplacedTables :
           InsertsInto(p[i], T) /\ InsertsInto(q[j], T) =>
             \A r \in q[j].rows : r.key \notin Keys(p[i].rows)
  PROVE  FreshPlan(p \o q, v)
<1> DEFINE S == {p[i] : i \in DOMAIN p} \cup {q[i] : i \in DOMAIN q}
           pq == p \o q
<1>1. p \in Seq(S) /\ q \in Seq(S)
  BY SeqMonotonic DEF PlanOK
<1> HIDE DEF S
<1>2. /\ Len(p) \in Nat /\ DOMAIN p = 1..Len(p) /\ DOMAIN q \subseteq Nat
      /\ \A i \in DOMAIN pq :
           \/ i \in 1..Len(p) /\ pq[i] = p[i]
           \/ i \in Nat /\ i > Len(p) /\ i - Len(p) \in DOMAIN q
                /\ pq[i] = q[i - Len(p)]
      /\ \A i \in 1..Len(p) : pq[i] = p[i]
      /\ \A j \in DOMAIN q : pq[j + Len(p)] = q[j]
      /\ \A j \in DOMAIN q : \A i \in 1..(j - 1) : i \in DOMAIN q
  BY <1>1, ConcatProperties
<1> HIDE DEF pq
<1>3. ASSUME NEW i \in DOMAIN pq, NEW T \in ReplacedTables, InsertsInto(pq[i], T)
      PROVE  /\ NoDuplicates(pq[i].rows)
             /\ \A r \in pq[i].rows :
                  /\ r.key \in Keys(v[T]) =>
                       \E j \in 1..(i - 1) : Deletes(pq[j], T, r.key)
                  /\ \A j \in 1..(i - 1) :
                       InsertsInto(pq[j], T) => r.key \notin Keys(pq[j].rows)
  <2>1. CASE i \in 1..Len(p) /\ pq[i] = p[i]
    <3>1. \A j \in 1..(i - 1) : pq[j] = p[j]
      BY <1>2, <2>1
    <3> QED BY <1>2, <1>3, <2>1, <3>1 DEF FreshPlan
  <2>2. CASE i \in Nat /\ i > Len(p) /\ i - Len(p) \in DOMAIN q
               /\ pq[i] = q[i - Len(p)]
    <3> DEFINE m == i - Len(p)
    <3>1. m \in DOMAIN q /\ pq[i] = q[m] /\ m + Len(p) = i /\ m \in Nat
      BY <1>2, <2>2
    <3> HIDE DEF m
    <3>2. /\ NoDuplicates(q[m].rows)
          /\ \A r \in q[m].rows :
               /\ r.key \in Keys(v[T]) =>
                    \E j \in 1..(m - 1) : Deletes(q[j], T, r.key)
               /\ \A j \in 1..(m - 1) :
                    InsertsInto(q[j], T) => r.key \notin Keys(q[j].rows)
      BY <1>3, <3>1 DEF FreshPlan
    <3>3. \A j \in 1..(m - 1) : j + Len(p) \in 1..(i - 1) /\ pq[j + Len(p)] = q[j]
      BY <1>2, <3>1
    <3>4. ASSUME NEW r \in pq[i].rows, NEW j \in 1..(i - 1), InsertsInto(pq[j], T)
          PROVE  r.key \notin Keys(pq[j].rows)
      <4>1. CASE j \in 1..Len(p)
        BY <1>2, <1>3, <3>1, <3>4, <4>1
      <4>2. CASE j \notin 1..Len(p)
        <5>1. j - Len(p) \in 1..(m - 1) /\ (j - Len(p)) + Len(p) = j
          BY <1>2, <3>1, <4>2
        <5>2. q[j - Len(p)] = pq[j]
          BY <3>3, <5>1
        <5> QED BY <3>1, <3>2, <3>4, <5>1, <5>2
      <4> QED BY <4>1, <4>2
    <3>5. ASSUME NEW r \in pq[i].rows, r.key \in Keys(v[T])
          PROVE  \E j \in 1..(i - 1) : Deletes(pq[j], T, r.key)
      <4>1. PICK j \in 1..(m - 1) : Deletes(q[j], T, r.key)
        BY <3>1, <3>2, <3>5
      <4> QED BY <3>3, <4>1
    <3> QED BY <3>1, <3>2, <3>4, <3>5
  <2> QED BY <1>2, <2>1, <2>2
<1> QED BY <1>3 DEF FreshPlan, pq

LEMMA FreshInsert ==
  ASSUME NEW T, NEW k, NEW x, NEW v, k \notin Keys(v[T])
  PROVE  FreshPlan(<<Insert(T, {Row(k, x)})>>, v)
<1> DEFINE s == Insert(T, {Row(k, x)})
<1>1. DOMAIN <<s>> = {1} /\ <<s>>[1] = s /\ 1..(1 - 1) = {}
  OBVIOUS
<1>2. s.table = T /\ s.rows = {Row(k, x)} /\ Row(k, x).key = k
  BY DEF Insert, Row
<1> HIDE DEF s
<1>3. NoDuplicates(s.rows)
  BY <1>2 DEF NoDuplicates
<1>4. \A r \in s.rows : r.key \notin Keys(v[s.table])
  BY <1>2
<1> HIDE <1>2
<1>5. FreshPlan(<<s>>, v)
  BY <1>1, <1>3, <1>4 DEF FreshPlan, InsertsInto
<1> QED BY <1>5 DEF s

LEMMA FreshReplace ==
  ASSUME NEW T, NEW keys, NEW rows, Keys(rows) \subseteq keys,
         NoDuplicates(rows), NEW v
  PROVE  FreshPlan(<<Delete(T, keys), Insert(T, rows)>>, v)
<1> DEFINE a == Delete(T, keys)
           b == Insert(T, rows)
           p == <<a, b>>
<1>1. DOMAIN p = {1, 2} /\ p[1] = a /\ p[2] = b /\ 1..(1 - 1) = {} /\ 1..(2 - 1) = {1}
  OBVIOUS
<1>2. /\ a.op = "delete" /\ a.table = T /\ a.keys = keys
      /\ b.op = "insert" /\ b.table = T /\ b.rows = rows
  BY DEF Delete, Insert
<1> HIDE DEF a, b, p
<1>3. \A r \in rows : r.key \in keys
  BY DEF Keys
<1>4. FreshPlan(p, v)
  BY <1>1, <1>2, <1>3 DEF FreshPlan, InsertsInto, Deletes
<1> QED BY <1>4 DEF a, b, p

LEMMA GoReplaced ==
  ASSUME ReplacedInv, db' = db, view' = view, NEW point, point # "exec", NEW n,
         NEW p, Go(point, n, p), FreshPlan(p, view),
         point # "start" => HalfBuilt(p, point)
  PROVE  ReplacedInv'
BY DEF Go, ReplacedInv

LEMMA RestReplaced ==
  ASSUME ReplacedInv, db' \in {db, view}, view' \in {db, view},
         pc' \in {"idle", "reply"}
  PROVE  ReplacedInv'
BY DEF ReplacedInv, Resting

\* statements that insert no handle, channel or preference
LEMMA GoHarmless ==
  ASSUME ReplacedInv, db' = db, view' = view, NEW point, point # "exec", NEW n,
         NEW p, Go(point, n, p), NoInserts(p)
  PROVE  ReplacedInv'
BY NoInsertsFresh, GoReplaced

LEMMA SocialFresh ==
  ASSUME NEW network, NEW handle
  PROVE  /\ FreshPlan(SocialStatement(network, handle), view)
         /\ \A i \in DOMAIN SocialStatement(network, handle), T \in ReplacedTables :
              InsertsInto(SocialStatement(network, handle)[i], T) =>
                /\ T = Social
                /\ \A r \in SocialStatement(network, handle)[i].rows :
                     r.key = <<msg.uid, network>>
<1> DEFINE key == <<msg.uid, network>>
           a == Delete(Social, {key})
           b == Update(Social, {key}, handle)
           c == Insert(Social, {Row(key, handle)})
<1>1. SocialStatement(network, handle) \in {<<>>, <<a>>, <<b>>}
        \/ (SocialStatement(network, handle) = <<c>> /\ key \notin Keys(view[Social]))
  BY MessagesAssumption DEF SocialStatement, Found
<1>2. a.op = "delete" /\ b.op = "update"
  BY DEF Delete, Update
<1>3. c.table = Social /\ c.rows = {Row(key, handle)} /\ Row(key, handle).key = key
  BY DEF Insert, Row
<1>4. NoInserts(<<>>) /\ NoInserts(<<a>>) /\ NoInserts(<<b>>)
  BY <1>2, EmptyNoInserts, OtherTable
<1>5. key \notin Keys(view[Social]) => FreshPlan(<<c>>, view)
  BY FreshInsert
<1>6. DOMAIN <<c>> = {1} /\ <<c>>[1] = c
  OBVIOUS
<1>7. \A r \in c.rows : r.key = key
  BY <1>3
<1> HIDE DEF a, b, c
<1>8. CASE SocialStatement(network, handle) \in {<<>>, <<a>>, <<b>>}
  BY <1>4, <1>8, NoInsertsFresh DEF NoInserts
<1>9. CASE SocialStatement(network, handle) = <<c>> /\ key \notin Keys(view[Social])
  BY <1>3, <1>5, <1>6, <1>7, <1>9 DEF InsertsInto
<1> QED BY <1>1, <1>8, <1>9

LEMMA SocialReplaced ==
  ASSUME TypeOK, ReplacedInv, db' = db, view' = view,
         LookupFacebook \/ LookupTwitter
  PROVE  ReplacedInv'
<1> DEFINE f == SocialStatement("facebook", msg.facebook)
           t == SocialStatement("twitter", msg.twitter)
<1>1. PlanOK(f) /\ PlanOK(t) /\ PlanOK(plan)
  BY SocialStatementType, RunningMessage, MessageShape
     DEF TypeOK, LookupFacebook, LookupTwitter, At, HandlerOK
<1>2. /\ FreshPlan(f, view)
      /\ \A i \in DOMAIN f, T \in ReplacedTables : InsertsInto(f[i], T) =>
           T = Social /\ \A r \in f[i].rows : r.key = <<msg.uid, "facebook">>
  BY SocialFresh
<1>3. /\ FreshPlan(t, view)
      /\ \A i \in DOMAIN t, T \in ReplacedTables : InsertsInto(t[i], T) =>
           T = Social /\ \A r \in t[i].rows : r.key = <<msg.uid, "twitter">>
  BY SocialFresh
<1>4. pc \in {"facebook", "twitter"}
  BY DEF LookupFacebook, LookupTwitter, At
<1>5. FreshPlan(plan, view) /\ HalfBuilt(plan, pc)
  BY <1>4 DEF ReplacedInv, Resting, AtRest
<1>6. \/ Go("twitter", 0, plan \o f) /\ pc = "facebook"
      \/ Go("start", 1, plan \o t) /\ pc = "twitter"
      \/ BareReturn
  BY DEF LookupFacebook, LookupTwitter, At
<1> HIDE DEF f, t
<1>7. CASE BareReturn
  BY <1>7, RestReplaced DEF BareReturn, Finish
<1>8. CASE Go("twitter", 0, plan \o f) /\ pc = "facebook"
  <2>1. NoInserts(plan)
    BY <1>5, <1>8 DEF HalfBuilt, NoInserts
  <2>2. FreshPlan(plan \o f, view)
    BY <1>1, <1>2, <1>5, <2>1, FreshConcat DEF NoInserts
  <2>3. HalfBuilt(plan \o f, "twitter")
    <3>2. \A i \in DOMAIN (plan \o f) :
            \/ i \in DOMAIN plan /\ (plan \o f)[i] = plan[i]
            \/ \E j \in DOMAIN f : (plan \o f)[i] = f[j]
      <4> DEFINE S == {plan[i] : i \in DOMAIN plan} \cup {f[i] : i \in DOMAIN f}
      <4>1. plan \in Seq(S) /\ f \in Seq(S)
        BY <1>1, SeqMonotonic DEF PlanOK
      <4> HIDE DEF S
      <4> QED BY <4>1, ConcatProperties
    <3> DEFINE pf == plan \o f
    <3> HIDE DEF pf
    <3>3. \A i \in DOMAIN pf, T \in ReplacedTables : InsertsInto(pf[i], T) =>
            T = Social /\ \A r \in pf[i].rows : r.key[2] = "facebook"
      BY <1>2, <2>1, <3>2 DEF pf, NoInserts
    <3>4. HalfBuilt(pf, "twitter")
      BY <3>3 DEF HalfBuilt
    <3> QED BY <3>4 DEF pf
  <2> QED BY <1>8, <2>2, <2>3, GoReplaced
<1>9. CASE Go("start", 1, plan \o t) /\ pc = "twitter"
  <2>1. ASSUME NEW i \in DOMAIN plan, NEW j \in DOMAIN t, NEW T \in ReplacedTables,
               InsertsInto(plan[i], T), InsertsInto(t[j], T), NEW r \in t[j].rows
        PROVE  r.key \notin Keys(plan[i].rows)
    <3>1. r.key = <<msg.uid, "twitter">>
      BY <1>3, <2>1
    <3>2. \A k \in Keys(plan[i].rows) : k[2] = "facebook"
      BY <1>5, <2>1 DEF HalfBuilt, Keys
    <3> QED BY <3>1, <3>2
  <2>2. FreshPlan(plan \o t, view)
    BY <1>1, <1>3, <1>5, <2>1, FreshConcat
  <2> QED BY <1>9, <2>2, GoReplaced
<1> QED BY <1>6, <1>7, <1>8, <1>9

LEMMA TableNotReplaced ==
  /\ RegInfo \notin ReplacedTables /\ Phone \notin ReplacedTables
  /\ Address \notin ReplacedTables /\ Request \notin ReplacedTables
  /\ Location \notin ReplacedTables
BY DEF ReplacedTables, RegInfo, Phone, Address, Social, Request, Channel,
       Preference, Location

LEMMA CheckReplaced ==
  ASSUME TypeOK, ReplacedInv, db' = db, view' = view,
         \/ CheckRegistration \/ CheckAvatar \/ CheckProfile \/ CheckBothUids
         \/ CheckLocation \/ LookupLocation \/ LookupAddress \/ LookupRequest
  PROVE  ReplacedInv'
<1>1. CASE pc' = "reply"
  BY <1>1, RestReplaced
<1>2. CASE CheckRegistration /\ pc' # "reply"
  <2> DEFINE a == Insert(RegInfo, {Row(<<msg.uid, msg.email>>, Absent)})
             b == Insert(Phone, {Row(<<msg.uid>>, Absent)})
  <2>1. a.table = RegInfo /\ b.table = Phone
    BY DEF Insert
  <2>2. Go("start", 1, <<a, b>>)
    BY <1>2 DEF CheckRegistration, Finish
  <2> HIDE DEF a, b
  <2>3. NoInserts(<<a, b>>)
    <3>1. DOMAIN <<a, b>> = {1, 2} /\ <<a, b>>[1] = a /\ <<a, b>>[2] = b
      OBVIOUS
    <3> QED BY <2>1, <3>1, TableNotReplaced DEF NoInserts, InsertsInto
  <2> QED BY <2>2, <2>3, GoHarmless
<1>3. CASE CheckAvatar /\ pc' # "reply"
  <2> DEFINE s == Update(RegInfo, {msg.uid} \X Emails, msg.url)
  <2>1. s.op = "update"
    BY DEF Update
  <2>2. Go("start", 2, <<s>>)
    BY <1>3 DEF CheckAvatar, BareReturn, Finish
  <2> HIDE DEF s
  <2> QED BY <2>1, <2>2, OtherTable, GoHarmless
<1>4. CASE (CheckProfile \/ CheckBothUids \/ CheckLocation) /\ pc' # "reply"
  <2>1. FreshPlan(plan, view) /\ NoInserts(plan)
    <3>1. pc = "check"
      BY <1>4 DEF CheckProfile, CheckBothUids, CheckLocation, At
    <3> QED BY <3>1 DEF ReplacedInv, Resting, AtRest, HalfBuilt, NoInserts
  <2>2. \/ Go("address", 1, plan) \/ Go("existing", 0, plan)
    BY <1>4 DEF CheckProfile, CheckBothUids, CheckLocation, BareReturn, Finish
  <2> QED BY <2>1, <2>2, GoHarmless
<1>5. CASE LookupAddress /\ pc' # "reply"
  <2> DEFINE key == <<msg.uid>>
             a == Update(Address, {key}, msg.address)
             b == Insert(Address, {Row(key, msg.address)})
  <2>1. a.table = Address /\ b.table = Address
    BY DEF Update, Insert
  <2>2. \/ Go("facebook", 0, <<>>) \/ Go("facebook", 0, <<a>>)
        \/ Go("facebook", 0, <<b>>)
    BY <1>5 DEF LookupAddress, BareReturn, Finish
  <2> HIDE DEF a, b
  <2>3. NoInserts(<<>>) /\ NoInserts(<<a>>) /\ NoInserts(<<b>>)
    BY <2>1, EmptyNoInserts, OtherTable, TableNotReplaced
  <2> QED BY <2>2, <2>3, GoHarmless
<1>6. CASE LookupRequest /\ pc' # "reply"
  <2> DEFINE key == <<msg.from, msg.to>>
             a == Update(Request, {key}, msg.flag)
             b == Insert(Request, {Row(key, msg.flag)})
  <2>1. a.table = Request /\ b.table = Request
    BY DEF Update, Insert
  <2>2. \/ Go("public", 0, <<a>>) \/ Go("public", 0, <<b>>)
        \/ Go("start", 1, <<a>>) \/ Go("start", 1, <<b>>)
    BY <1>6 DEF LookupRequest, Finish
  <2> HIDE DEF a, b
  <2>3. NoInserts(<<a>>) /\ NoInserts(<<b>>)
    BY <2>1, OtherTable, TableNotReplaced
  <2> QED BY <2>2, <2>3, GoHarmless
<1>7. CASE LookupLocation /\ pc' # "reply"
  <2> DEFINE key == <<msg.uid>>
             a == Update(Location, {key}, msg.place)
             b == Insert(Location, {Row(key, msg.place)})
  <2>1. a.table = Location /\ b.table = Location
    BY DEF Update, Insert
  <2>2. Go("start", 1, <<a>>) \/ Go("start", 1, <<b>>)
    BY <1>7 DEF LookupLocation, BareReturn, Finish
  <2> HIDE DEF a, b
  <2>3. NoInserts(<<a>>) /\ NoInserts(<<b>>)
    BY <2>1, OtherTable, TableNotReplaced
  <2> QED BY <2>2, <2>3, GoHarmless
<1> QED BY <1>1, <1>2, <1>3, <1>4, <1>5, <1>6, <1>7

\* a preference message names each channel once
DistinctChannels ==
  \A m \in Messages : m.api = "cxn_preference" =>
    \A i, j \in DOMAIN m.list : m.list[i].channel = m.list[j].channel => i = j

LEMMA PreferenceReplaced ==
  ASSUME DistinctChannels, TypeOK, ReplacedInv, db' = db, view' = view,
         CheckPreference
  PROVE  ReplacedInv'
<1> DEFINE list == msg.list
           keys == {<<msg.uid, list[i].channel>> : i \in DOMAIN list}
           row(i) == [key |-> <<msg.uid, list[i].channel>>, val |-> list[i].flag,
                      id |-> i]
           rows == {row(i) : i \in DOMAIN list}
           p == <<Delete(Preference, keys), Insert(Preference, rows)>>
<1>1. Go("start", 1, p) \/ Finish("404", "404")
  BY DEF CheckPreference
<1>2. \A i, j \in DOMAIN list : list[i].channel = list[j].channel => i = j
  BY RunningMessage DEF DistinctChannels, CheckPreference, At, TypeOK
<1>3. \A i : row(i).key = <<msg.uid, list[i].channel>>
  OBVIOUS
<1>4. \A i, j : row(i).key = row(j).key => list[i].channel = list[j].channel
  BY <1>3
<1>5. Keys(rows) \subseteq keys
  <2> HIDE DEF row
  <2> QED BY <1>3 DEF Keys
<1>6. NoDuplicates(rows)
  <2> HIDE DEF row, list
  <2> QED BY <1>2, <1>4 DEF NoDuplicates
<1> HIDE DEF keys, rows
<1>7. FreshPlan(p, view)
  BY <1>5, <1>6, FreshReplace
<1> HIDE DEF p
<1>8. CASE Finish("404", "404")
  BY <1>8, RestReplaced DEF Finish
<1> QED BY <1>1, <1>7, <1>8, GoReplaced

LEMMA ChannelReplaced ==
  ASSUME ReplacedInv, db' = db, view' = view, LookupChannel
  PROVE  ReplacedInv'
<1> DEFINE key == <<msg.from, msg.to, msg.type>>
           s == Insert(Channel, {Row(key, Absent)})
<1>1. CASE pc' = "reply"
  BY <1>1, RestReplaced
<1>2. CASE pc' # "reply"
  <2>1. Go("start", 1, <<s>>) /\ key \notin Keys(view[Channel])
    BY <1>2 DEF LookupChannel, Finish, Found
  <2>2. FreshPlan(<<s>>, view)
    <3> HIDE DEF key
    <3> QED BY <2>1, FreshInsert
  <2> HIDE DEF s
  <2> QED BY <2>1, <2>2, GoReplaced
<1> QED BY <1>1, <1>2

\* what a granted request opens, and the two statements that replace the
\* channels of a pair
ExposedRows(v) == {r \in v[Preference] : r.key[1] = msg.to /\ r.val = "public"}

GrantRow(r) ==
  [key |-> <<msg.from, msg.to, r.key[2]>>, val |-> Absent, id |-> r.id]

GrantedRows(v) ==
  IF ExposedRows(v) = {} THEN {Row(<<msg.from, msg.to, "connect">>, Absent)}
  ELSE {GrantRow(r) : r \in ExposedRows(v)}

PairKeys == {msg.from} \X {msg.to} \X (ChannelIds \cup {"connect"})

GrantStatements ==
  <<Delete(Channel, PairKeys), Insert(Channel, GrantedRows(view))>>

LEMMA PublicStep ==
  LookupPublic =>
    /\ pc = "public" /\ msg.api = "cxn_request"
    /\ \/ Answered /\ Go("start", 1, plan \o GrantStatements)
       \/ NotAnswered /\ Finish("404", "404")
BY DEF LookupPublic, At, GrantStatements, PairKeys, GrantedRows, GrantRow,
       ExposedRows

LEMMA GrantedShape ==
  ASSUME SessionOK
  PROVE  /\ \A r \in ExposedRows(view) :
              r.key \in Uids \X ChannelIds /\ r.key[1] = msg.to
         /\ \A r \in GrantedRows(view) :
              /\ r.val = Absent
              /\ \E c \in ChannelIds \cup {"connect"} :
                   r.key = <<msg.from, msg.to, c>>
<1> DEFINE other == Row(<<msg.from, msg.to, "connect">>, Absent)
<1>1. \A r \in ExposedRows(view) : r.key \in Uids \X ChannelIds /\ r.key[1] = msg.to
  <2>1. Preference \in TableNames /\ KeysOf[Preference] = Uids \X ChannelIds
    BY DEF Preference, TableNames, KeysOf
  <2> QED BY <2>1 DEF ExposedRows, SessionOK, TablesOK, RowsOK
<1>2. \A r \in ExposedRows(view) : r.key[2] \in ChannelIds
  BY <1>1
<1>3. /\ \A r : GrantRow(r).key = <<msg.from, msg.to, r.key[2]>>
      /\ \A r : GrantRow(r).val = Absent
      /\ other.key = <<msg.from, msg.to, "connect">> /\ other.val = Absent
  BY DEF Row, GrantRow
<1> HIDE DEF other
<1>4. CASE ExposedRows(view) = {}
  <2>1. GrantedRows(view) = {other}
    BY <1>4 DEF GrantedRows, other
  <2> QED BY <1>1, <1>3, <2>1
<1>5. CASE ExposedRows(view) # {}
  <2>1. GrantedRows(view) = {GrantRow(r) : r \in ExposedRows(view)}
    BY <1>5 DEF GrantedRows
  <2> QED BY <1>1, <1>2, <1>3, <2>1
<1> QED BY <1>4, <1>5

LEMMA PublicPlanOK ==
  ASSUME TypeOK, pc = "public", msg.api = "cxn_request"
  PROVE  PlanOK(GrantStatements)
<1>1. msg.from \in Uids /\ msg.to \in Uids
  BY RunningMessage DEF TypeOK
<1>2. \A c \in ChannelIds \cup {"connect"} :
        <<msg.from, msg.to, c>> \in Uids \X Uids \X (ChannelIds \cup {"connect"})
  BY <1>1
<1>3. \A r \in GrantedRows(view) :
        r.key \in Uids \X Uids \X (ChannelIds \cup {"connect"}) /\ r.val = Absent
  BY <1>2, GrantedShape DEF TypeOK
<1>4. StatementOK(Insert(Channel, GrantedRows(view)))
  BY <1>3 DEF StatementOK, Insert, RowsOK, KeysOf, ValuesOf, Channel, TableNames
<1>5. StatementOK(Delete(Channel, PairKeys))
  BY DeleteOK DEF TableNames
<1> QED BY <1>4, <1>5, PlanLiteral DEF GrantStatements

LEMMA PublicReplaced ==
  ASSUME TypeOK, ReplacedInv, db' = db, view' = view, LookupPublic
  PROVE  ReplacedInv'
<1>1. \A r \in GrantedRows(view) : \E c \in ChannelIds \cup {"connect"} :
        r.key = <<msg.from, msg.to, c>>
  BY GrantedShape DEF TypeOK
<1>2. Keys(GrantedRows(view)) \subseteq PairKeys
  <2>1. \A c \in ChannelIds \cup {"connect"} : <<msg.from, msg.to, c>> \in PairKeys
    BY DEF PairKeys
  <2> QED BY <1>1, <2>1 DEF Keys
<1>3. NoDuplicates(GrantedRows(view))
  <2>1. CASE ExposedRows(view) = {}
    <3> DEFINE other == Row(<<msg.from, msg.to, "connect">>, Absent)
    <3>1. GrantedRows(view) = {other}
      BY <2>1 DEF GrantedRows
    <3> HIDE DEF other
    <3> QED BY <3>1 DEF NoDuplicates
  <2>2. CASE ExposedRows(view) # {}
    <3>1. ASSUME NEW r \in ExposedRows(view), NEW s \in ExposedRows(view),
                 GrantRow(r).key = GrantRow(s).key
          PROVE  r = s
      <4>1. r.key[2] = s.key[2] /\ r.key[1] = s.key[1]
        BY <3>1, GrantedShape DEF GrantRow, TypeOK
      <4>2. r.key = s.key
        <5>1. r.key \in Uids \X ChannelIds /\ s.key \in Uids \X ChannelIds
          BY GrantedShape DEF TypeOK
        <5> QED BY <4>1, <5>1
      <4>3. NoDuplicates(view[Preference]) /\ ExposedRows(view) \subseteq view[Preference]
        BY ReplacedNames DEF ReplacedInv, ExposedRows
      <4> QED BY <4>2, <4>3 DEF NoDuplicates
    <3>2. GrantedRows(view) = {GrantRow(r) : r \in ExposedRows(view)}
      BY <2>2 DEF GrantedRows
    <3> QED BY <3>1, <3>2 DEF NoDuplicates
  <2> QED BY <2>1, <2>2
<1>4. FreshPlan(GrantStatements, view)
  BY <1>2, <1>3, FreshReplace DEF GrantStatements
<1>5. PlanOK(plan) /\ FreshPlan(plan, view) /\ NoInserts(plan)
  <2>1. pc = "public"
    BY PublicStep
  <2> QED BY <2>1 DEF TypeOK, HandlerOK, ReplacedInv, Resting, AtRest, HalfBuilt,
                      NoInserts
<1>6. PlanOK(GrantStatements)
  BY PublicStep, PublicPlanOK
<1>7. FreshPlan(plan \o GrantStatements, view)
  BY <1>4, <1>5, <1>6, FreshConcat DEF NoInserts
<1>8. CASE Finish("404", "404")
  BY <1>8, RestReplaced DEF Finish
<1> QED BY <1>7, <1>8, PublicStep, GoReplaced

LEMMA LookupReplaced ==
  ASSUME Steady, DistinctChannels, TypeOK, KeptInv, RestInv, ReplacedInv, Lookup
  PROVE  ReplacedInv'
<1>1. db' = db /\ view' = view
  BY LookupCommand, SteadyCommand DEF Resting
<1> QED
  BY <1>1, CheckReplaced, PreferenceReplaced, ChannelReplaced, PublicReplaced,
     SocialReplaced DEF Lookup

LEMMA StatementReplaced ==
  ASSUME TypeOK, KeptInv, ReplacedInv, pc = "exec",
         Executed(Head(plan)) \/ ExecutedUnheard(Head(plan))
  PROVE  /\ \A T \in ReplacedTables : NoDuplicates(db'[T]) /\ NoDuplicates(view'[T])
         /\ FreshPlan(Tail(plan), view')
<1>1. plan # <<>> /\ PlanOK(plan) /\ TablesOK(view)
  BY DEF TypeOK, HandlerOK, SessionOK
<1>2. Reachable /\ view' = Apply(Head(plan), view) /\ db' \in {db, view'}
  BY DEF Executed, ExecutedUnheard
<1>3. FreshPlan(plan, view)
  BY <1>2 DEF ReplacedInv, Lost, Reachable, TypeOK, SessionOK
<1>4. \A T \in ReplacedTables : NoDuplicates(view'[T])
  BY <1>1, <1>2, <1>3, FreshHead DEF ReplacedInv
<1>5. FreshPlan(Tail(plan), view')
  BY <1>1, <1>2, <1>3, FreshTail
<1> QED BY <1>2, <1>4, <1>5 DEF ReplacedInv

LEMMA TransactionReplaced ==
  ASSUME Steady, TypeOK, KeptInv, RestInv, ReplacedInv,
         StartTransaction \/ ExecStatement \/ FailStatement \/ Commit \/ Rollback
  PROVE  ReplacedInv'
<1>1. ASSUME Same \/ Synced \/ Reverted
      PROVE  \A T \in ReplacedTables : NoDuplicates(db'[T]) /\ NoDuplicates(view'[T])
  BY <1>1 DEF ReplacedInv, Same, Synced, Reverted
<1>2. CASE StartTransaction
  <2>1. FreshPlan(plan, view)
    BY <1>2 DEF StartTransaction, ReplacedInv, Resting, AtRest
  <2>2. view' = view
    BY <1>2, SteadyCommand DEF StartTransaction, Started, AtRest
  <2>3. Same \/ Synced \/ Reverted
    BY <1>2, CommandEffect DEF StartTransaction
  <2>4. plan' = plan /\ pc' \in {"exec", "commit"}
    BY <1>2 DEF StartTransaction, Go, AfterStatement
  <2> QED BY <1>1, <2>1, <2>2, <2>3, <2>4 DEF ReplacedInv, Resting, AtRest
<1>3. CASE ExecStatement
  <2>1. /\ \A T \in ReplacedTables : NoDuplicates(db'[T]) /\ NoDuplicates(view'[T])
        /\ FreshPlan(Tail(plan), view')
    BY <1>3, StatementReplaced DEF ExecStatement
  <2>2. plan' = Tail(plan) /\ pc' \in {"exec", "commit"}
    BY <1>3 DEF ExecStatement, Go, AfterStatement
  <2> QED BY <2>1, <2>2 DEF ReplacedInv, Resting, AtRest
<1>4. CASE FailStatement
  <2>1. \A T \in ReplacedTables : NoDuplicates(db'[T]) /\ NoDuplicates(view'[T])
    <3>1. CASE ExecutedUnheard(Head(plan))
      BY <1>4, <3>1, StatementReplaced DEF FailStatement
    <3>2. CASE Refused(Head(plan)) \/ NotAnswered
      BY <1>1, <3>2, CommandEffect DEF Refused, Same
    <3> QED BY <1>4, <3>1, <3>2 DEF FailStatement
  <2>2. pc' \in {"rollback", "reply"}
    BY <1>4 DEF FailStatement, Go, BareReturn, Finish
  <2> QED BY <2>1, <2>2 DEF ReplacedInv, Resting, AtRest
<1>5. CASE Commit \/ Rollback
  <2>1. Same \/ Synced \/ Reverted
    BY <1>5, CommandEffect DEF Commit, Rollback
  <2>2. pc' = "reply"
    BY <1>5 DEF Commit, Rollback, Finish
  <2> QED BY <1>1, <2>1, <2>2 DEF ReplacedInv, Resting, AtRest
<1> QED BY <1>2, <1>3, <1>4, <1>5

LEMMA DisconnectReplaced ==
  ASSUME Steady, TypeOK, KeptInv, RestInv, ReplacedInv, Disconnect
  PROVE  ReplacedInv'
<1>1. UNCHANGED handlerVars /\ LoseConnection /\ db' = db /\ view' = db
  BY DEF Disconnect, LoseConnection
<1>2. AtRest => view' = view
  BY <1>1, SteadyCommand
<1>3. pc = "exec" => Lost' \/ view' = view
  BY <1>1 DEF Lost, LoseConnection, KeptInv, SessionInv
<1>4. Lost => Lost'
  BY <1>1 DEF Lost, LoseConnection
<1>5. \A T \in ReplacedTables : NoDuplicates(db'[T]) /\ NoDuplicates(view'[T])
  BY <1>1 DEF ReplacedInv
<1>6. plan' = plan /\ pc' = pc
  BY <1>1 DEF handlerVars
<1>7. Resting' => FreshPlan(plan', view')
  BY <1>2, <1>6 DEF ReplacedInv, Resting, AtRest
<1>8. pc' = "exec" => Lost' \/ FreshPlan(plan', view')
  BY <1>3, <1>4, <1>6 DEF ReplacedInv
<1> QED BY <1>5, <1>6, <1>7, <1>8 DEF ReplacedInv

LEMMA ReplacedKept ==
  ASSUME Steady, DistinctChannels, TypeOK, KeptInv, RestInv, ReplacedInv,
         [Next]_vars
  PROVE  ReplacedInv'
<1>1. ASSUME NEW m \in Messages, Receive(m) PROVE ReplacedInv'
  <2>1. db' = db /\ view' = view /\ plan' = <<>> /\ pc' \in {"reply", "check"}
    BY <1>1 DEF Receive, sessionVars
  <2> QED BY <2>1, EmptyNoInserts, NoInsertsFresh DEF ReplacedInv, Resting, AtRest
<1>2. CASE Ping
  <2>1. plan' = plan /\ pc' = pc /\ pc # "exec"
    BY <1>2 DEF Ping, KeptInv, PlanInv
  <2>2. Resting => db' = db /\ view' = view
    BY <1>2, SteadyCommand DEF Ping, Resting
  <2>3. Same \/ Synced \/ Reverted
    BY <1>2, CommandEffect DEF Ping
  <2> QED BY <2>1, <2>2, <2>3 DEF ReplacedInv, Resting, AtRest, Same, Synced, Reverted
<1>3. CASE RequestWithoutFlag \/ Reply \/ Restart
  BY <1>3, RestReplaced
     DEF RequestWithoutFlag, Reply, Restart, NewSession, Idle, sessionVars
<1>4. CASE UNCHANGED vars
  BY <1>4 DEF vars, sessionVars, handlerVars, ReplacedInv, Resting, AtRest, Lost
<1> QED
  BY <1>1, <1>2, <1>3, <1>4, LookupReplaced, TransactionReplaced,
     DisconnectReplaced DEF Next

LEMMA ReplacedInit == Init => ReplacedInv
BY DEF Init, SessionInit, ReplacedInv, ReplacedTables, NoRows, NoDuplicates,
       TableNames, Resting, AtRest

\* The handles, channels and preferences, which the handlers also delete
\* (mysqldb_handler.c 675-706, 913-950, 1703-1736), have one row per key,
\* unless the server both refuses statements and drops connections, or a
\* message names a channel twice.
THEOREM ReplacedOnceHolds ==
  ASSUME Steady, DistinctChannels
  PROVE  Spec => []ReplacedOnce
<1>1. Init => RestInv /\ ReplacedInv
  BY RestInvInit, ReplacedInit
<1>2. TypeOK /\ KeptInv /\ RestInv /\ ReplacedInv /\ [Next]_vars
        => (RestInv /\ ReplacedInv)'
  BY RestInvKept, ReplacedKept
<1>3. ReplacedInv => ReplacedOnce
  BY DEF ReplacedInv, ReplacedOnce
<1> QED BY <1>1, <1>2, <1>3, TypeCorrect, KeptInvariant, PTL DEF Spec

(***************************************************************************)
(* Rows refer to registered users.                                         *)
(***************************************************************************)
\* what is stored of a table are the keys and values of its rows
LEMMA StoredPairs ==
  ASSUME NEW t, NEW T \in TableNames
  PROVE  /\ \A p \in Stored(t)[T] : \E r \in t[T] : p[1] = r.key /\ p[2] = r.val
         /\ \A r \in t[T] : \E p \in Stored(t)[T] : p[1] = r.key /\ p[2] = r.val
<1>1. Stored(t)[T] = {<<r.key, r.val>> : r \in t[T]}
  BY DEF Stored
<1>2. \A r : <<r.key, r.val>>[1] = r.key /\ <<r.key, r.val>>[2] = r.val
  OBVIOUS
<1> QED BY <1>1, <1>2

LEMMA StoredUser ==
  ASSUME NEW u, NEW t
  PROVE  Service!User(u, Stored(t)) <=> UserIn(u, t)
<1>1. RegInfo \in TableNames /\ RegInfo = "UserRegInfo"
  BY DEF RegInfo, TableNames
<1> QED BY <1>1, StoredPairs DEF Service!User, UserIn

LEMMA MessageApi ==
  ASSUME NEW m \in Messages
  PROVE  m.api \in {"registration", "update_avatar", "update_profile",
                    "cxn_request", "cxn_channel", "cxn_preference", "location"}
BY MessagesAssumption
   DEF Message, RegistrationMsg, AvatarMsg, ProfileMsg, CxnRequestMsg,
       CxnChannelMsg, CxnPreferenceMsg, LocationMsg

\* when a request may be granted, in terms of the tables
LEMMA PermittedByTables ==
  ASSUME NEW m \in Messages, NEW t
  PROVE  Service!Permitted(m, Stored(t)) <=>
           /\ m.api = "registration" =>
                \A r \in t[RegInfo] : r.key[1] # m.uid /\ r.key[2] # m.email
           /\ m.api \in {"cxn_request", "cxn_channel"} =>
                UserIn(m.from, t) /\ UserIn(m.to, t) /\ m.from # m.to
           /\ m.api \in {"update_avatar", "update_profile", "cxn_preference",
                         "location"} => UserIn(m.uid, t)
<1>1. RegInfo \in TableNames /\ RegInfo = "UserRegInfo"
  BY DEF RegInfo, TableNames
<1>2. (\A p \in Stored(t)["UserRegInfo"] : p[1][1] # m.uid /\ p[1][2] # m.email)
        <=> \A r \in t[RegInfo] : r.key[1] # m.uid /\ r.key[2] # m.email
  BY <1>1, StoredPairs
<1>3. CASE m.api = "registration"
  BY <1>2, <1>3 DEF Service!Permitted
<1>4. CASE m.api \in {"cxn_request", "cxn_channel"}
  BY <1>4, StoredUser DEF Service!Permitted
<1>5. CASE m.api \in {"update_avatar", "update_profile", "cxn_preference", "location"}
  BY <1>5, StoredUser DEF Service!Permitted
<1> QED BY <1>3, <1>4, <1>5, MessageApi

\* the checks grant what may be granted
LEMMA ChecksPermit ==
  ASSUME Calm, TypeOK, QuietInv, Lookup, pc = "check", pc' # "reply"
  PROVE  Service!Permitted(msg, Stored(view))
<1>1. Answered /\ ~NotAnswered /\ msg \in Messages
  BY LookupCommand, CalmCommand, RunningMessage DEF Resting, TypeOK
<1>2. \A u : Registered(u) <=> UserIn(u, view)
  BY DEF Registered, UserIn
<1>3. CASE CheckRegistration
  BY <1>1, <1>3, PermittedByTables DEF CheckRegistration, At, Finish
<1>4. CASE CheckAvatar \/ CheckProfile \/ CheckPreference \/ CheckLocation
  <2>1. msg.api \in {"update_avatar", "update_profile", "cxn_preference", "location"}
    BY <1>4 DEF CheckAvatar, CheckProfile, CheckPreference, CheckLocation, At
  <2>2. Registered(msg.uid)
    BY <1>1, <1>4
       DEF CheckAvatar, CheckProfile, CheckPreference, CheckLocation, BareReturn, Finish
  <2> QED BY <1>1, <1>2, <2>1, <2>2, PermittedByTables
<1>5. CASE CheckBothUids
  <2>1. msg.api \in {"cxn_request", "cxn_channel"}
    BY <1>5 DEF CheckBothUids, At
  <2>2. Registered(msg.from) /\ Registered(msg.to) /\ msg.from # msg.to
    BY <1>1, <1>5 DEF CheckBothUids, Finish
  <2> QED BY <1>1, <1>2, <2>1, <2>2, PermittedByTables
<1> QED
  BY <1>3, <1>4, <1>5
     DEF Lookup, LookupAddress, LookupFacebook, LookupTwitter, LookupRequest,
         LookupPublic, LookupChannel, LookupLocation, At

LEMMA ConcatShape ==
  ASSUME NEW p, PlanOK(p), NEW q, PlanOK(q)
  PROVE  \A i \in DOMAIN (p \o q) :
           \/ i \in DOMAIN p /\ (p \o q)[i] = p[i]
           \/ \E j \in DOMAIN q : (p \o q)[i] = q[j]
<1> DEFINE S == {p[i] : i \in DOMAIN p} \cup {q[i] : i \in DOMAIN q}
<1>1. p \in Seq(S) /\ q \in Seq(S)
  BY SeqMonotonic DEF PlanOK
<1> HIDE DEF S
<1> QED BY <1>1, ConcatProperties

LEMMA ReferConcat ==
  ASSUME NEW p, PlanOK(p), NEW q, PlanOK(q), NEW v,
         ReferencePlan(p, v), ReferencePlan(q, v)
  PROVE  ReferencePlan(p \o q, v)
<1> DEFINE pq == p \o q
<1>1. \A i \in DOMAIN pq : \/ i \in DOMAIN p /\ pq[i] = p[i]
                           \/ \E j \in DOMAIN q : pq[i] = q[j]
  BY ConcatShape
<1> HIDE DEF pq
<1>2. ReferencePlan(pq, v)
  BY <1>1 DEF ReferencePlan
<1> QED BY <1>2 DEF pq

MayInsert(s, v) ==
  s.op = "insert" /\ s.table # Phone => \A r \in s.rows : Refers(s.table, r.key, v)

LEMMA ReferPlans ==
  ASSUME NEW v
  PROVE  /\ ReferencePlan(<<>>, v)
         /\ \A s : MayInsert(s, v) => ReferencePlan(<<s>>, v)
         /\ \A s, t : MayInsert(s, v) /\ MayInsert(t, v) => ReferencePlan(<<s, t>>, v)
<1>1. ReferencePlan(<<>>, v)
  <2>1. DOMAIN <<>> = {}
    OBVIOUS
  <2> QED BY <2>1 DEF ReferencePlan
<1>2. ASSUME NEW s, MayInsert(s, v) PROVE ReferencePlan(<<s>>, v)
  <2>1. DOMAIN <<s>> = {1} /\ <<s>>[1] = s
    OBVIOUS
  <2> QED BY <1>2, <2>1 DEF ReferencePlan, MayInsert
<1>3. ASSUME NEW s, NEW t, MayInsert(s, v), MayInsert(t, v)
      PROVE  ReferencePlan(<<s, t>>, v)
  <2>1. DOMAIN <<s, t>> = {1, 2} /\ <<s, t>>[1] = s /\ <<s, t>>[2] = t
    OBVIOUS
  <2> QED BY <1>3, <2>1 DEF ReferencePlan, MayInsert
<1> QED BY <1>1, <1>2, <1>3

LEMMA MayInsertOther ==
  ASSUME NEW v, NEW T, NEW keys, NEW x
  PROVE  MayInsert(Update(T, keys, x), v) /\ MayInsert(Delete(T, keys), v)
BY DEF MayInsert, Update, Delete

LEMMA MayInsertRow ==
  ASSUME NEW v, NEW T, NEW k, NEW x, Refers(T, k, v)
  PROVE  MayInsert(Insert(T, {Row(k, x)}), v)
BY DEF MayInsert, Insert, Row

LEMMA TableTexts ==
  /\ RegInfo = "UserRegInfo" /\ Phone = "UserPhone" /\ Address = "UserAddress"
  /\ Social = "UserSocialNetwork" /\ Request = "UserConnectRequest"
  /\ Channel = "UserConnectChannel" /\ Preference = "UserConnectPreferences"
  /\ Location = "UserGeoLocation"
BY DEF RegInfo, Phone, Address, Social, Request, Channel, Preference, Location

LEMMA RefersOfUser ==
  ASSUME NEW v, NEW k, NEW u, UserIn(u, v), k[1] = u
  PROVE  \A T \in {Address, Social, Preference, Location, RegInfo} : Refers(T, k, v)
BY TableTexts DEF Refers

LEMMA RefersOfPair ==
  ASSUME NEW v, NEW k, UserIn(k[1], v), UserIn(k[2], v), k[1] # k[2]
  PROVE  \A T \in {Request, Channel} : Refers(T, k, v)
BY TableTexts DEF Refers

LEMMA GoReferences ==
  ASSUME ReferencesInv, db' = db, view' = view, NEW point, point # "exec", NEW n,
         NEW p, Go(point, n, p), ReferencePlan(p, view),
         Service!Permitted(msg, Stored(view))
  PROVE  ReferencesInv'
<1>1. plan' = p /\ pc' = point /\ msg' = msg
  BY DEF Go
<1>2. RefersToUsers(db)' /\ RefersToUsers(view)'
  BY DEF ReferencesInv
<1>3. Service!Permitted(msg, Stored(view))'
  BY <1>1
<1>4. ReferencePlan(plan, view)'
  BY <1>1
<1> QED BY <1>1, <1>2, <1>3, <1>4 DEF ReferencesInv

LEMMA RestReferences ==
  ASSUME ReferencesInv, db' \in {db, view}, view' \in {db, view},
         pc' \in {"idle", "reply", "rollback"}
  PROVE  ReferencesInv'
<1>1. RefersToUsers(db)' /\ RefersToUsers(view)'
  BY DEF ReferencesInv
<1> QED BY <1>1 DEF ReferencesInv, Resting, AtRest

LEMMA ReferencesOfPlan ==
  ASSUME ReferencesInv, Resting
  PROVE  ReferencePlan(plan, view)
BY DEF ReferencesInv

\* what a lookup may go on with
LEMMA LookupGoes ==
  ASSUME TypeOK, Lookup, pc' # "reply", ReferencePlan(plan, view),
         Service!Permitted(msg, Stored(view))
  PROVE  \E point, n, p : /\ point # "exec" /\ Go(point, n, p)
                          /\ ReferencePlan(p, view)
<1>1. msg \in Messages
  BY LookupCommand, RunningMessage DEF Resting, TypeOK
<1>2. msg.api \in {"update_avatar", "update_profile", "cxn_preference", "location"} =>
        UserIn(msg.uid, view)
  BY <1>1, PermittedByTables
<1>3. msg.api \in {"cxn_request", "cxn_channel"} =>
        UserIn(msg.from, view) /\ UserIn(msg.to, view) /\ msg.from # msg.to
  BY <1>1, PermittedByTables
<1>4. CASE CheckRegistration
  <2> DEFINE a == Insert(RegInfo, {Row(<<msg.uid, msg.email>>, Absent)})
             b == Insert(Phone, {Row(<<msg.uid>>, Absent)})
  <2>1. Go("start", 1, <<a, b>>)
    BY <1>4 DEF CheckRegistration, Finish
  <2>2. MayInsert(a, view) /\ MayInsert(b, view)
    BY TableTexts DEF MayInsert, Insert, Refers
  <2> HIDE DEF a, b
  <2> QED BY <2>1, <2>2, ReferPlans
<1>5. CASE CheckAvatar
  <2>1. Go("start", 2, <<Update(RegInfo, {msg.uid} \X Emails, msg.url)>>)
    BY <1>5 DEF CheckAvatar, BareReturn, Finish
  <2> QED BY <2>1, ReferPlans, MayInsertOther
<1>6. CASE CheckProfile \/ CheckBothUids \/ CheckLocation
  BY <1>6 DEF CheckProfile, CheckBothUids, CheckLocation, BareReturn, Finish
<1>7. CASE CheckPreference
  <2> DEFINE list == msg.list
             keys == {<<msg.uid, list[i].channel>> : i \in DOMAIN list}
             row(i) == [key |-> <<msg.uid, list[i].channel>>, val |-> list[i].flag,
                        id |-> i]
             rows == {row(i) : i \in DOMAIN list}
             b == Insert(Preference, rows)
  <2>1. Go("start", 1, <<Delete(Preference, keys), b>>)
    BY <1>7 DEF CheckPreference, Finish
  <2>2. UserIn(msg.uid, view)
    BY <1>2, <1>7 DEF CheckPreference, At
  <2>3. \A i : row(i).key[1] = msg.uid
    OBVIOUS
  <2>4. \A r \in rows : Refers(Preference, r.key, view)
    <3> HIDE DEF row
    <3> QED BY <2>2, <2>3, RefersOfUser
  <2>5. MayInsert(b, view)
    <3> HIDE DEF rows
    <3> QED BY <2>4 DEF MayInsert, Insert
  <2> HIDE DEF b, keys
  <2> QED BY <2>1, <2>5, ReferPlans, MayInsertOther
<1>8. CASE LookupAddress
  <2> DEFINE key == <<msg.uid>>
             a == Update(Address, {key}, msg.address)
             b == Insert(Address, {Row(key, msg.address)})
  <2>1. \/ Go("facebook", 0, <<>>) \/ Go("facebook", 0, <<a>>)
        \/ Go("facebook", 0, <<b>>)
    BY <1>8 DEF LookupAddress, BareReturn, Finish
  <2>2. Refers(Address, key, view)
    BY <1>2, <1>8, RefersOfUser DEF LookupAddress, At
  <2>3. MayInsert(a, view) /\ MayInsert(b, view)
    BY <2>2, MayInsertOther, MayInsertRow
  <2> HIDE DEF a, b
  <2> QED BY <2>1, <2>3, ReferPlans
<1>9. CASE LookupFacebook \/ LookupTwitter
  <2> DEFINE f == SocialStatement("facebook", msg.facebook)
             t == SocialStatement("twitter", msg.twitter)
  <2>1. PlanOK(f) /\ PlanOK(t) /\ PlanOK(plan)
    BY <1>9, SocialStatementType, RunningMessage, MessageShape
       DEF TypeOK, LookupFacebook, LookupTwitter, At, HandlerOK
  <2>2. Go("twitter", 0, plan \o f) \/ Go("start", 1, plan \o t)
    BY <1>9 DEF LookupFacebook, LookupTwitter, BareReturn, Finish
  <2>3. UserIn(msg.uid, view)
    BY <1>2, <1>9 DEF LookupFacebook, LookupTwitter, At
  <2>4. \A network, handle : ReferencePlan(SocialStatement(network, handle), view)
    <3> SUFFICES ASSUME NEW network, NEW handle
          PROVE  ReferencePlan(SocialStatement(network, handle), view)
      OBVIOUS
    <3> DEFINE key == <<msg.uid, network>>
               a == Delete(Social, {key})
               b == Update(Social, {key}, handle)
               c == Insert(Social, {Row(key, handle)})
    <3>1. SocialStatement(network, handle) \in {<<>>, <<a>>, <<b>>, <<c>>}
      BY MessagesAssumption DEF SocialStatement
    <3>2. Refers(Social, key, view)
      BY <2>3, RefersOfUser
    <3>3. MayInsert(a, view) /\ MayInsert(b, view) /\ MayInsert(c, view)
      <4> HIDE DEF key
      <4> QED BY <3>2, MayInsertOther, MayInsertRow
    <3> HIDE DEF a, b, c
    <3> QED BY <3>1, <3>3, ReferPlans
  <2>5. ReferencePlan(plan \o f, view) /\ ReferencePlan(plan \o t, view)
    BY <2>1, <2>4, ReferConcat
  <2> HIDE DEF f, t
  <2> QED BY <2>2, <2>5
<1>10. CASE LookupRequest
  <2> DEFINE key == <<msg.from, msg.to>>
             a == Update(Request, {key}, msg.flag)
             b == Insert(Request, {Row(key, msg.flag)})
  <2>1. \/ Go("public", 0, <<a>>) \/ Go("public", 0, <<b>>)
        \/ Go("start", 1, <<a>>) \/ Go("start", 1, <<b>>)
    BY <1>10 DEF LookupRequest, Finish
  <2>2. Refers(Request, key, view)
    BY <1>3, <1>10, RefersOfPair DEF LookupRequest, At
  <2>3. MayInsert(a, view) /\ MayInsert(b, view)
    <3> HIDE DEF key
    <3> QED BY <2>2, MayInsertOther, MayInsertRow
  <2> HIDE DEF a, b
  <2> QED BY <2>1, <2>3, ReferPlans
<1>11. CASE LookupPublic
  <2> DEFINE d == Delete(Channel, PairKeys)
             b == Insert(Channel, GrantedRows(view))
  <2>1. Go("start", 1, plan \o GrantStatements)
    BY <1>11, PublicStep DEF Finish
  <2>2. \A c : Refers(Channel, <<msg.from, msg.to, c>>, view)
    BY <1>3, <1>11, PublicStep, RefersOfPair
  <2>3. \A r \in GrantedRows(view) : Refers(Channel, r.key, view)
    BY <2>2, GrantedShape DEF TypeOK
  <2>4. MayInsert(b, view) /\ MayInsert(d, view)
    BY <2>3, MayInsertOther DEF MayInsert, Insert
  <2>5. ReferencePlan(GrantStatements, view)
    <3>1. GrantStatements = <<d, b>>
      BY DEF GrantStatements
    <3> HIDE DEF d, b
    <3> QED BY <2>4, <3>1, ReferPlans
  <2>6. PlanOK(GrantStatements) /\ PlanOK(plan)
    BY <1>11, PublicStep, PublicPlanOK DEF TypeOK, HandlerOK
  <2>7. ReferencePlan(plan \o GrantStatements, view)
    BY <2>5, <2>6, ReferConcat
  <2> QED BY <2>1, <2>7
<1>12. CASE LookupChannel
  <2> DEFINE key == <<msg.from, msg.to, msg.type>>
             b == Insert(Channel, {Row(key, Absent)})
  <2>1. Go("start", 1, <<b>>)
    BY <1>12 DEF LookupChannel, Finish
  <2>2. Refers(Channel, key, view)
    BY <1>3, <1>12, RefersOfPair DEF LookupChannel, At
  <2>3. MayInsert(b, view)
    <3> HIDE DEF key
    <3> QED BY <2>2, MayInsertRow
  <2> HIDE DEF b
  <2> QED BY <2>1, <2>3, ReferPlans
<1>13. CASE LookupLocation
  <2> DEFINE key == <<msg.uid>>
             a == Update(Location, {key}, msg.place)
             b == Insert(Location, {Row(key, msg.place)})
  <2>1. Go("start", 1, <<a>>) \/ Go("start", 1, <<b>>)
    BY <1>13 DEF LookupLocation, BareReturn, Finish
  <2>2. Refers(Location, key, view)
    BY <1>2, <1>13, RefersOfUser DEF LookupLocation, At
  <2>3. MayInsert(a, view) /\ MayInsert(b, view)
    BY <2>2, MayInsertOther, MayInsertRow
  <2> HIDE DEF a, b
  <2> QED BY <2>1, <2>3, ReferPlans
<1> QED
  BY <1>4, <1>5, <1>6, <1>7, <1>8, <1>9, <1>10, <1>11, <1>12, <1>13 DEF Lookup

LEMMA LookupReferences ==
  ASSUME Calm, TypeOK, KeptInv, RestInv, ReferencesInv, Lookup
  PROVE  ReferencesInv'
<1>1. Resting /\ (Answered \/ NotAnswered)
  BY LookupCommand
<1>2. db' = db /\ view' = view
  BY <1>1, SteadyCommand DEF Resting, Calm, Steady
<1>3. CASE pc' = "reply"
  BY <1>2, <1>3, RestReferences
<1>4. CASE pc' # "reply"
  <2>1. Service!Permitted(msg, Stored(view))
    BY <1>1, <1>4, ChecksPermit DEF ReferencesInv, RestInv
  <2>2. PICK point, n, p : /\ point # "exec" /\ Go(point, n, p)
                           /\ ReferencePlan(p, view)
    BY <1>1, <1>4, <2>1, ReferencesOfPlan, LookupGoes
  <2> QED BY <1>2, <2>1, <2>2, GoReferences
<1> QED BY <1>3, <1>4

LEMMA RefersKept ==
  ASSUME NEW v, NEW w, \A u : UserIn(u, v) => UserIn(u, w)
  PROVE  /\ \A T, k : Refers(T, k, v) => Refers(T, k, w)
         /\ \A p : ReferencePlan(p, v) => ReferencePlan(p, w)
BY DEF Refers, ReferencePlan

LEMMA StatementReferences ==
  ASSUME TypeOK, KeptInv, ReferencesInv, TablesInv', pc = "exec",
         Executed(Head(plan)) \/ ExecutedUnheard(Head(plan))
  PROVE  /\ RefersToUsers(db') /\ RefersToUsers(view')
         /\ ReferencePlan(Tail(plan), view')
<1> DEFINE s == Head(plan)
<1>1. plan # <<>> /\ PlanOK(plan) /\ TablesOK(view)
  BY DEF TypeOK, HandlerOK, SessionOK
<1>2. Reachable /\ view' = Apply(s, view) /\ db' \in {db, view'}
  BY DEF Executed, ExecutedUnheard
<1>3. MayExecute(s) /\ StatementOK(s)
  BY <1>2, HeadMayExecute
<1>4. ReferencePlan(plan, view)
  BY <1>2 DEF ReferencesInv, Lost, Reachable, TypeOK, SessionOK
<1>5. /\ 1 \in DOMAIN plan /\ s = plan[1]
      /\ \A i \in DOMAIN Tail(plan) :
           i + 1 \in DOMAIN plan /\ Tail(plan)[i] = plan[i + 1]
  BY <1>1, PlanShape
<1> HIDE DEF s
<1>6. Keys(view[RegInfo]) \subseteq Keys(view'[RegInfo])
  BY <1>1, <1>2, <1>3, ApplyKeeps, KeptNames DEF MayExecute
<1>7. \A u : UserIn(u, view) => UserIn(u, view')
  BY <1>6, UserInKeys
<1>8. ASSUME NEW T \in TableNames, NEW r \in view'[T]
      PROVE  Refers(T, r.key, view')
  <2>1. CASE T = Phone
    BY <1>8, <2>1, TableTexts DEF TablesInv, Refers
  <2>2. CASE r.key \in Keys(view[T])
    BY <1>7, <2>2, RefersKept DEF Keys, ReferencesInv, RefersToUsers
  <2>3. CASE T # Phone /\ InsertsInto(s, T) /\ r.key \in Keys(s.rows)
    BY <1>4, <1>5, <1>7, <2>3, RefersKept DEF Keys, InsertsInto, ReferencePlan
  <2>4. r.key \in Keys(view'[T])
    BY DEF Keys
  <2> QED BY <1>1, <1>2, <1>3, <2>1, <2>2, <2>3, <2>4, KeyAfter
<1>9. RefersToUsers(view')
  BY <1>8 DEF RefersToUsers
<1>10. RefersToUsers(db')
  BY <1>2, <1>9 DEF ReferencesInv
<1>11. ReferencePlan(Tail(plan), view')
  <2>1. ReferencePlan(Tail(plan), view)
    BY <1>4, <1>5 DEF ReferencePlan
  <2> QED BY <1>7, <2>1, RefersKept
<1> QED BY <1>9, <1>10, <1>11

LEMMA TransactionReferences ==
  ASSUME Calm, TypeOK, KeptInv, KeptInv', RestInv, ReferencesInv,
         StartTransaction \/ ExecStatement \/ FailStatement \/ Commit \/ Rollback
  PROVE  ReferencesInv'
<1>1. ASSUME Same \/ Synced \/ Reverted
      PROVE  RefersToUsers(db)' /\ RefersToUsers(view)'
  BY <1>1 DEF ReferencesInv, Same, Synced, Reverted
<1>2. CASE StartTransaction
  <2>1. ReferencePlan(plan, view)
    BY <1>2 DEF StartTransaction, ReferencesInv, Resting, AtRest
  <2>2. view' = view
    BY <1>2, SteadyCommand DEF StartTransaction, Started, AtRest, Calm, Steady
  <2>3. Same \/ Synced \/ Reverted
    BY <1>2, CommandEffect DEF StartTransaction
  <2>4. plan' = plan /\ pc' \in {"exec", "commit"}
    BY <1>2 DEF StartTransaction, Go, AfterStatement
  <2>5. ReferencePlan(plan', view')
    BY <2>1, <2>2, <2>4
  <2> QED BY <1>1, <2>3, <2>4, <2>5 DEF ReferencesInv, Resting, AtRest
<1>3. CASE ExecStatement
  <2>1. /\ RefersToUsers(db') /\ RefersToUsers(view')
        /\ ReferencePlan(Tail(plan), view')
    BY <1>3, StatementReferences DEF ExecStatement, KeptInv
  <2>2. plan' = Tail(plan) /\ pc' \in {"exec", "commit"}
    BY <1>3 DEF ExecStatement, Go, AfterStatement
  <2>3. ReferencePlan(plan', view')
    BY <2>1, <2>2
  <2> QED BY <2>1, <2>2, <2>3 DEF ReferencesInv, Resting, AtRest
<1>4. CASE FailStatement
  <2>1. RefersToUsers(db') /\ RefersToUsers(view')
    <3>1. CASE ExecutedUnheard(Head(plan))
      BY <1>4, <3>1, StatementReferences DEF FailStatement, KeptInv
    <3>2. CASE Refused(Head(plan)) \/ NotAnswered
      BY <1>1, <3>2, CommandEffect DEF Refused, Same
    <3> QED BY <1>4, <3>1, <3>2 DEF FailStatement
  <2>2. pc' \in {"rollback", "reply"}
    BY <1>4 DEF FailStatement, Go, BareReturn, Finish
  <2> QED BY <2>1, <2>2 DEF ReferencesInv, Resting, AtRest
<1>5. CASE Commit \/ Rollback
  <2>1. Same \/ Synced \/ Reverted
    BY <1>5, CommandEffect DEF Commit, Rollback
  <2>2. pc' = "reply"
    BY <1>5 DEF Commit, Rollback, Finish
  <2> QED BY <1>1, <2>1, <2>2 DEF ReferencesInv, Resting, AtRest
<1> QED BY <1>2, <1>3, <1>4, <1>5

LEMMA SameReferences ==
  ASSUME ReferencesInv, db' \in {db, view}, view' \in {db, view},
         Resting => view' = view, pc = "exec" => Lost' \/ view' = view, Lost => Lost',
         UNCHANGED <<msg, pc, plan>>
  PROVE  ReferencesInv'
<1>1. RefersToUsers(db)' /\ RefersToUsers(view)'
  BY DEF ReferencesInv
<1>2. Resting' <=> Resting
  BY DEF Resting, AtRest
<1>3. view' = view => (ReferencePlan(plan, view)' <=> ReferencePlan(plan, view))
  OBVIOUS
<1>4. view' = view =>
        (Service!Permitted(msg, Stored(view))' <=> Service!Permitted(msg, Stored(view)))
  OBVIOUS
<1> QED BY <1>1, <1>2, <1>3, <1>4 DEF ReferencesInv

LEMMA ReferencesKept ==
  ASSUME Calm, TypeOK, KeptInv, KeptInv', RestInv, ReferencesInv, [Next]_vars
  PROVE  ReferencesInv'
<1>1. ASSUME NEW m \in Messages, Receive(m) PROVE ReferencesInv'
  <2>1. db' = db /\ view' = view /\ plan' = <<>> /\ pc' \in {"reply", "check"}
    BY <1>1 DEF Receive, sessionVars
  <2>2. RefersToUsers(db)' /\ RefersToUsers(view)'
    BY <2>1 DEF ReferencesInv
  <2>3. ReferencePlan(plan, view)'
    BY <2>1, ReferPlans
  <2> QED BY <2>1, <2>2, <2>3 DEF ReferencesInv, Resting, AtRest
<1>2. CASE Ping
  <2>1. plan' = plan /\ pc' = pc /\ msg' = msg /\ pc # "exec"
    BY <1>2 DEF Ping, KeptInv, PlanInv
  <2>2. AtRest => db' = db /\ view' = view
    BY <1>2, SteadyCommand DEF Ping, Calm, Steady
  <2>3. Same \/ Synced \/ Reverted
    BY <1>2, CommandEffect DEF Ping
  <2>4. CASE AtRest
    <3>1. Lost => Lost'
      BY <2>4, CalmCommand DEF RestInv
    <3> QED BY <2>1, <2>2, <2>4, <3>1, SameReferences
  <2>5. CASE ~AtRest
    <3>1. RefersToUsers(db)' /\ RefersToUsers(view)'
      BY <2>3 DEF ReferencesInv, Same, Synced, Reverted
    <3> QED BY <2>1, <2>5, <3>1 DEF ReferencesInv, Resting, AtRest
  <2> QED BY <2>4, <2>5
<1>3. CASE RequestWithoutFlag \/ Reply \/ Restart
  BY <1>3, RestReferences
     DEF RequestWithoutFlag, Reply, Restart, NewSession, Idle, sessionVars
<1>4. CASE Disconnect
  <2>1. /\ UNCHANGED handlerVars /\ LoseConnection /\ db' = db /\ view' = db
        /\ UNCHANGED <<msg, pc, plan>>
    BY <1>4 DEF Disconnect, LoseConnection, handlerVars
  <2>2. Resting => view' = view
    BY <2>1, SteadyCommand DEF Resting, Calm, Steady
  <2>3. pc = "exec" => Lost' \/ view' = view
    BY <2>1 DEF Lost, LoseConnection, KeptInv, SessionInv
  <2>4. Lost => Lost'
    BY <2>1 DEF Lost, LoseConnection
  <2> QED BY <2>1, <2>2, <2>3, <2>4, SameReferences
<1>5. CASE UNCHANGED vars
  <2>1. /\ db' = db /\ view' = view /\ UNCHANGED <<msg, pc, plan>>
        /\ Lost' <=> Lost
    BY <1>5 DEF vars, sessionVars, handlerVars, Lost
  <2> QED BY <2>1, SameReferences
<1> QED
  BY <1>1, <1>2, <1>3, <1>4, <1>5, LookupReferences, TransactionReferences DEF Next

LEMMA ReferencesInit == Init => ReferencesInv
BY DEF Init, SessionInit, ReferencesInv, RefersToUsers, NoRows, Resting, AtRest

\* No row of the database (mysql_schema.c has no foreign keys) names a user
\* who is not registered, and no user is connected to himself: what the
\* checks of the handlers found still stands when their rows are written,
\* unless a lost connection makes a lookup fail, or the server refuses a
\* statement as well as dropping connections.
THEOREM ReferencesRegisteredHolds ==
  ASSUME Calm
  PROVE  Spec => []ReferencesRegistered
<1>1. Init => RestInv /\ ReferencesInv
  BY RestInvInit, ReferencesInit
<1>2. /\ TypeOK /\ KeptInv /\ KeptInv' /\ RestInv /\ ReferencesInv /\ [Next]_vars
      => (RestInv /\ ReferencesInv)'
  BY RestInvKept, ReferencesKept
<1>3. ReferencesInv => ReferencesRegistered
  BY DEF ReferencesInv, ReferencesRegistered
<1> QED BY <1>1, <1>2, <1>3, TypeCorrect, KeptInvariant, PTL DEF Spec

(***************************************************************************)
(* The contents of the tables.                                             *)
(***************************************************************************)
\* for each table a set of pairs
IsStore(S) ==
  /\ S = [T \in TableNames |-> S[T]]
  /\ \A T \in TableNames : \A q \in S[T] : q = <<q[1], q[2]>>

LEMMA StoredIsStore == ASSUME NEW t PROVE IsStore(Stored(t))
<1>1. \A T \in TableNames : Stored(t)[T] = {<<r.key, r.val>> : r \in t[T]}
  BY DEF Stored
<1>2. \A T \in TableNames : \A q \in Stored(t)[T] : q = <<q[1], q[2]>>
  BY <1>1
<1>3. Stored(t) = [T \in TableNames |-> Stored(t)[T]]
  BY DEF Stored
<1> QED BY <1>2, <1>3 DEF IsStore

LEMMA SameStore ==
  ASSUME NEW A, NEW B, IsStore(A), IsStore(B), \A T \in TableNames : A[T] = B[T]
  PROVE  A = B
BY DEF IsStore

Pairs(rows) == {<<r.key, r.val>> : r \in rows}

LEMMA PairsOf ==
  ASSUME NEW t, NEW T \in TableNames
  PROVE  Stored(t)[T] = Pairs(t[T])
BY DEF Stored, Pairs

LEMMA DoTable ==
  ASSUME NEW s, s.table \in TableNames, NEW S, IsStore(S)
  PROVE  /\ \A T \in TableNames : T # s.table => Do(s, S)[T] = S[T]
         /\ s.op = "insert" => Do(s, S)[s.table] = S[s.table] \cup Pairs(s.rows)
         /\ s.op = "update" => Do(s, S)[s.table] =
              {<<q[1], IF q[1] \in s.keys THEN s.val ELSE q[2]>> : q \in S[s.table]}
         /\ s.op = "delete" => Do(s, S)[s.table] =
              {q \in S[s.table] : q[1] \notin s.keys}
         /\ Do(s, S) = [T \in TableNames |-> Do(s, S)[T]]
<1> DEFINE x == CASE s.op = "insert" -> S[s.table] \cup {<<r.key, r.val>> : r \in s.rows}
                  [] s.op = "update" ->
                       {<<q[1], IF q[1] \in s.keys THEN s.val ELSE q[2]>> : q \in S[s.table]}
                  [] s.op = "delete" -> {q \in S[s.table] : q[1] \notin s.keys}
<1>1. Do(s, S) = [S EXCEPT ![s.table] = x]
  BY DEF Do
<1>2. /\ s.op = "insert" => x = S[s.table] \cup Pairs(s.rows)
      /\ s.op = "update" => x =
           {<<q[1], IF q[1] \in s.keys THEN s.val ELSE q[2]>> : q \in S[s.table]}
      /\ s.op = "delete" => x = {q \in S[s.table] : q[1] \notin s.keys}
  BY DEF Pairs
<1> HIDE DEF x
<1>3. S = [T \in TableNames |-> S[T]]
  BY DEF IsStore
<1>4. /\ Do(s, S)[s.table] = x
      /\ \A T \in TableNames : T # s.table => Do(s, S)[T] = S[T]
      /\ Do(s, S) = [T \in TableNames |-> Do(s, S)[T]]
  BY <1>1, <1>3
<1> QED BY <1>2, <1>4

LEMMA DoIsStore ==
  ASSUME NEW s, s.table \in TableNames, s.op \in {"insert", "update", "delete"},
         NEW S, IsStore(S)
  PROVE  IsStore(Do(s, S))
<1>1. ASSUME NEW T \in TableNames, NEW q \in Do(s, S)[T]
      PROVE  q = <<q[1], q[2]>>
  <2>1. CASE T # s.table
    BY <2>1, <1>1, DoTable DEF IsStore
  <2>2. CASE T = s.table /\ s.op = "insert"
    BY <2>2, <1>1, DoTable DEF IsStore, Pairs
  <2>3. CASE T = s.table /\ s.op = "update"
    BY <2>3, <1>1, DoTable
  <2>4. CASE T = s.table /\ s.op = "delete"
    BY <2>4, <1>1, DoTable DEF IsStore
  <2> QED BY <2>1, <2>2, <2>3, <2>4
<1> QED BY <1>1, DoTable DEF IsStore

\* a statement does to the rows what it does to their contents
LEMMA StoredApply ==
  ASSUME NEW s, StatementOK(s), NEW t, TablesOK(t)
  PROVE  Stored(Apply(s, t)) = Do(s, Stored(t))
<1> DEFINE T == s.table
<1>1. T \in TableNames /\ s.op \in {"insert", "update", "delete"}
  BY DEF StatementOK
<1>2. IsStore(Stored(t)) /\ IsStore(Stored(Apply(s, t))) /\ IsStore(Do(s, Stored(t)))
  BY <1>1, StoredIsStore, DoIsStore
<1>3. ASSUME NEW U \in TableNames, U # T
      PROVE  Stored(Apply(s, t))[U] = Do(s, Stored(t))[U]
  BY <1>1, <1>2, <1>3, PairsOf, ApplyTable, DoTable
<1>4. CASE s.op = "insert"
  <2> DEFINE a(r) == [key |-> r.key, val |-> r.val, id |-> r.id + LastId(t[T], r.key)]
  <2>1. \A r : a(r).key = r.key /\ a(r).val = r.val
    OBVIOUS
  <2>2. Apply(s, t)[T] = t[T] \cup {a(r) : r \in s.rows}
    BY <1>1, <1>4, ApplyTable DEF AddRows
  <2> HIDE DEF a
  <2>3. Pairs(Apply(s, t)[T]) = Pairs(t[T]) \cup Pairs(s.rows)
    <3> HIDE DEF T
    <3> QED BY <2>1, <2>2 DEF Pairs
  <2>4. Do(s, Stored(t))[T] = Stored(t)[T] \cup Pairs(s.rows)
    BY <1>1, <1>2, <1>4, DoTable
  <2>5. Stored(Apply(s, t))[T] = Do(s, Stored(t))[T]
    BY <1>1, <2>3, <2>4, PairsOf
  <2> HIDE DEF T
  <2> QED BY <1>2, <1>3, <2>5, SameStore
<1>5. CASE s.op = "update"
  <2> DEFINE a(r) == [key |-> r.key, val |-> IF r.key \in s.keys THEN s.val ELSE r.val,
                      id |-> r.id]
             b(q) == <<q[1], IF q[1] \in s.keys THEN s.val ELSE q[2]>>
             pr(r) == <<r.key, r.val>>
  <2>1. \A r : b(pr(r)) = pr(a(r))
    OBVIOUS
  <2>2. Apply(s, t)[T] = {a(r) : r \in t[T]}
    BY <1>1, <1>5, ApplyTable DEF SetRows
  <2>3. \A rows : Pairs(rows) = {pr(r) : r \in rows}
    BY DEF Pairs
  <2>5. Do(s, Stored(t))[T] = {b(q) : q \in Stored(t)[T]}
    BY <1>1, <1>2, <1>5, DoTable
  <2> HIDE DEF a, b, pr
  <2>4. Pairs(Apply(s, t)[T]) = {b(q) : q \in Pairs(t[T])}
    <3> HIDE DEF T
    <3> QED BY <2>1, <2>2, <2>3
  <2>6. Stored(Apply(s, t))[T] = Do(s, Stored(t))[T]
    BY <1>1, <2>4, <2>5, PairsOf
  <2> HIDE DEF T
  <2> QED BY <1>2, <1>3, <2>6, SameStore
<1>6. CASE s.op = "delete"
  <2>1. Apply(s, t)[T] = {r \in t[T] : r.key \notin s.keys}
    BY <1>1, <1>6, ApplyTable DEF DropRows
  <2>2. Pairs(Apply(s, t)[T]) = {q \in Pairs(t[T]) : q[1] \notin s.keys}
    <3> HIDE DEF T
    <3> QED BY <2>1 DEF Pairs
  <2>3. Do(s, Stored(t))[T] = {q \in Stored(t)[T] : q[1] \notin s.keys}
    BY <1>1, <1>2, <1>6, DoTable
  <2>4. Stored(Apply(s, t))[T] = Do(s, Stored(t))[T]
    BY <1>1, <2>2, <2>3, PairsOf
  <2> HIDE DEF T
  <2> QED BY <1>2, <1>3, <2>4, SameStore
<1> QED BY <1>1, <1>4, <1>5, <1>6


(***************************************************************************)
(* Statements one after the other.                                         *)
(***************************************************************************)
LEMMA RunLiterals ==
  ASSUME NEW S
  PROVE  /\ Run(<<>>, S) = S
         /\ \A s : Run(<<s>>, S) = Do(s, S)
         /\ \A s, t : Run(<<s, t>>, S) = Do(t, Do(s, S))
BY DEF Run

LEMMA RunTail ==
  ASSUME NEW p, PlanOK(p), p # <<>>, Len(p) <= 3, NEW S
  PROVE  Run(p, S) = Run(Tail(p), Do(Head(p), S)) /\ Len(Tail(p)) < Len(p)
<1> DEFINE X == {p[i] : i \in DOMAIN p}
           q == Tail(p)
           d == Do(Head(p), S)
<1> SUFFICES Run(p, S) = Run(q, d) /\ Len(q) < Len(p)
  OBVIOUS
<1>1. p \in Seq(X)
  BY DEF PlanOK
<1> HIDE DEF X
<1>2. Len(p) \in Nat /\ Len(p) # 0 /\ d = Do(p[1], S)
  BY <1>1
<1>3. /\ Len(q) = Len(p) - 1
      /\ \A i \in 1..Len(q) : q[i] = p[i + 1]
  BY <1>1, HeadTailProperties
<1> HIDE DEF q, d
<1>4. CASE Len(p) = 1
  <2>1. Len(q) = 0
    BY <1>3, <1>4
  <2>2. Run(p, S) = Do(p[1], S) /\ Run(q, d) = d
    BY <1>4, <2>1 DEF Run
  <2> QED BY <1>2, <1>4, <2>1, <2>2
<1>5. CASE Len(p) = 2
  <2>1. Len(q) = 1 /\ q[1] = p[2]
    BY <1>3, <1>5
  <2>2. Run(p, S) = Do(p[2], Do(p[1], S)) /\ Run(q, d) = Do(q[1], d)
    BY <1>5, <2>1 DEF Run
  <2> QED BY <1>2, <1>5, <2>1, <2>2
<1>6. CASE Len(p) = 3
  <2>1. Len(q) = 2 /\ q[1] = p[2] /\ q[2] = p[3]
    BY <1>3, <1>6
  <2>2. /\ Run(p, S) = Do(p[3], Do(p[2], Do(p[1], S)))
        /\ Run(q, d) = Do(q[2], Do(q[1], d))
    BY <1>6, <2>1 DEF Run
  <2> QED BY <1>2, <1>6, <2>1, <2>2
<1>7. \A n \in Nat : n # 0 /\ n <= 3 => n \in {1, 2, 3}
  OBVIOUS
<1> QED BY <1>2, <1>4, <1>5, <1>6, <1>7

\* one statement more
LEMMA RunAppend ==
  ASSUME NEW p, PlanOK(p), NEW s, Len(p) <= 2, NEW S
  PROVE  Run(p \o <<s>>, S) = Do(s, Run(p, S)) /\ Len(p \o <<s>>) = Len(p) + 1
<1> DEFINE X == {p[i] : i \in DOMAIN p} \cup {s}
           q == <<s>>
           pq == p \o q
<1> SUFFICES Run(pq, S) = Do(s, Run(p, S)) /\ Len(pq) = Len(p) + 1
  OBVIOUS
<1>1. p \in Seq(X) /\ q \in Seq(X) /\ Len(q) = 1 /\ q[1] = s
  BY SeqMonotonic DEF PlanOK
<1> HIDE DEF X, q
<1>2. Len(p) \in Nat
  BY <1>1
<1>3. /\ Len(pq) = Len(p) + 1
      /\ \A i \in 1..(Len(p) + 1) : pq[i] = IF i <= Len(p) THEN p[i] ELSE q[i - Len(p)]
  BY <1>1, <1>2, ConcatProperties
<1> HIDE DEF pq
<1>4. CASE Len(p) = 0
  <2>1. Len(pq) = 1 /\ pq[1] = s
    BY <1>1, <1>3, <1>4
  <2> QED BY <1>4, <2>1 DEF Run
<1>5. CASE Len(p) = 1
  <2>1. Len(pq) = 2 /\ pq[1] = p[1] /\ pq[2] = s
    BY <1>1, <1>3, <1>5
  <2> QED BY <1>5, <2>1 DEF Run
<1>6. CASE Len(p) = 2
  <2>1. Len(pq) = 3 /\ pq[1] = p[1] /\ pq[2] = p[2] /\ pq[3] = s
    BY <1>1, <1>3, <1>6
  <2> QED BY <1>6, <2>1 DEF Run
<1>7. Len(p) \in {0, 1, 2}
  BY <1>2
<1> QED BY <1>4, <1>5, <1>6, <1>7

LEMMA RunConcatTwo ==
  ASSUME NEW p, PlanOK(p), NEW s, NEW t, Len(p) <= 1, NEW S
  PROVE  Run(p \o <<s, t>>, S) = Do(t, Do(s, Run(p, S)))
         /\ Len(p \o <<s, t>>) = Len(p) + 2
<1> DEFINE X == {p[i] : i \in DOMAIN p} \cup {s, t}
           q == <<s, t>>
           pq == p \o q
<1> SUFFICES Run(pq, S) = Do(t, Do(s, Run(p, S))) /\ Len(pq) = Len(p) + 2
  OBVIOUS
<1>1. p \in Seq(X) /\ q \in Seq(X) /\ Len(q) = 2 /\ q[1] = s /\ q[2] = t
  BY SeqMonotonic DEF PlanOK
<1> HIDE DEF X, q
<1>2. Len(p) \in Nat
  BY <1>1
<1>3. /\ Len(pq) = Len(p) + 2
      /\ \A i \in 1..(Len(p) + 2) : pq[i] = IF i <= Len(p) THEN p[i] ELSE q[i - Len(p)]
  <2>1. /\ Len(pq) = Len(p) + Len(q)
        /\ \A i \in 1..(Len(p) + Len(q)) :
             pq[i] = IF i <= Len(p) THEN p[i] ELSE q[i - Len(p)]
    BY <1>1, ConcatProperties
  <2> HIDE DEF pq
  <2> QED BY <1>1, <2>1
<1> HIDE DEF pq
<1>4. CASE Len(p) = 0
  <2>1. Len(pq) = 2 /\ pq[1] = s /\ pq[2] = t
    BY <1>1, <1>3, <1>4
  <2> QED BY <1>4, <2>1 DEF Run
<1>5. CASE Len(p) = 1
  <2>1. Len(pq) = 3 /\ pq[1] = p[1] /\ pq[2] = s /\ pq[3] = t
    BY <1>1, <1>3, <1>5
  <2> QED BY <1>5, <2>1 DEF Run
<1>6. \A n \in Nat : n <= 1 => n \in {0, 1}
  OBVIOUS
<1> QED BY <1>2, <1>4, <1>5, <1>6

(***************************************************************************)
(* Statements on one table.                                                *)
(***************************************************************************)
\* the same tables, one of them changed
Become(S, T, rel) == [S EXCEPT ![T] = rel]

LEMMA BecomeIsStore ==
  ASSUME NEW S, IsStore(S), NEW T \in TableNames, NEW rel,
         \A q \in rel : q = <<q[1], q[2]>>
  PROVE  /\ IsStore(Become(S, T, rel))
         /\ Become(S, T, rel)[T] = rel
         /\ \A U \in TableNames : U # T => Become(S, T, rel)[U] = S[U]
BY DEF Become, IsStore

LEMMA DoBecomes ==
  ASSUME NEW S, IsStore(S), NEW T \in TableNames
  PROVE  /\ \A rows : Do(Insert(T, rows), S) = Become(S, T, S[T] \cup Pairs(rows))
         /\ \A keys, v : Do(Update(T, keys, v), S) =
              Become(S, T, {<<q[1], IF q[1] \in keys THEN v ELSE q[2]>> : q \in S[T]})
         /\ \A keys : Do(Delete(T, keys), S) = Become(S, T, {q \in S[T] : q[1] \notin keys})
BY DEF Do, Insert, Update, Delete, Become, Pairs

LEMMA PutCases ==
  ASSUME NEW rel, \A q \in rel : q = <<q[1], q[2]>>, NEW k, NEW v
  PROVE  /\ ~Service!Holds(rel, k) => Service!Put(rel, k, v) = rel \cup {<<k, v>>}
         /\ Service!Holds(rel, k) => Service!Put(rel, k, v) =
              {<<q[1], IF q[1] \in {k} THEN v ELSE q[2]>> : q \in rel}
         /\ \A q \in Service!Put(rel, k, v) : q = <<q[1], q[2]>>
<1>1. CASE ~Service!Holds(rel, k)
  BY <1>1 DEF Service!Holds, Service!Put
<1>2. CASE Service!Holds(rel, k)
  <2> DEFINE b(q) == <<q[1], IF q[1] \in {k} THEN v ELSE q[2]>>
  <2>1. \A q \in rel : q[1] # k => b(q) = q
    OBVIOUS
  <2>2. \A q : q[1] = k => b(q) = <<k, v>>
    OBVIOUS
  <2>3. Service!Put(rel, k, v) = {q \in rel : q[1] # k} \cup {<<k, v>>}
    BY DEF Service!Put
  <2>4. \E q \in rel : q[1] = k
    BY <1>2 DEF Service!Holds
  <2>5. <<k, v>> = << <<k, v>>[1], <<k, v>>[2] >>
    OBVIOUS
  <2> HIDE DEF b
  <2>6. Service!Put(rel, k, v) = {b(q) : q \in rel}
    BY <2>1, <2>2, <2>3, <2>4
  <2>7. \A q \in Service!Put(rel, k, v) : q = <<q[1], q[2]>>
    BY <2>3, <2>5
  <2> QED BY <1>2, <2>6, <2>7 DEF b
<1> QED BY <1>1, <1>2

LEMMA HoldsFound ==
  ASSUME NEW t, NEW T \in TableNames, NEW k
  PROVE  Service!Holds(Stored(t)[T], k) <=> k \in Keys(t[T])
BY StoredPairs DEF Service!Holds, Keys

LEMMA PairsOfRow == ASSUME NEW k, NEW v PROVE Pairs({Row(k, v)}) = {<<k, v>>}
BY DEF Pairs, Row

LEMMA DoInsertRow ==
  ASSUME NEW S, IsStore(S), NEW T \in TableNames, NEW k, NEW v
  PROVE  Do(Insert(T, {Row(k, v)}), S) = Become(S, T, S[T] \cup {<<k, v>>})
<1> DEFINE rows == {Row(k, v)}
<1>1. Do(Insert(T, rows), S) = Become(S, T, S[T] \cup Pairs(rows))
  BY DoBecomes
<1>2. Pairs(rows) = {<<k, v>>}
  BY PairsOfRow
<1> QED BY <1>1, <1>2

\* "update the row, or insert it if there is none" puts it
LEMMA UpsertPuts ==
  ASSUME NEW S, IsStore(S), NEW T \in TableNames, NEW k, NEW v,
         NEW found, found <=> Service!Holds(S[T], k)
  PROVE  Do(IF found THEN Update(T, {k}, v) ELSE Insert(T, {Row(k, v)}), S)
           = Become(S, T, Service!Put(S[T], k, v))
<1>1. \A q \in S[T] : q = <<q[1], q[2]>>
  BY DEF IsStore
<1>2. CASE Service!Holds(S[T], k)
  <2>1. Do(Update(T, {k}, v), S) = Become(S, T, Service!Put(S[T], k, v))
    BY <1>1, <1>2, PutCases, DoBecomes
  <2> QED BY <1>2, <2>1
<1>3. CASE ~Service!Holds(S[T], k)
  <2>1. Service!Put(S[T], k, v) = S[T] \cup {<<k, v>>}
    BY <1>1, <1>3, PutCases
  <2>2. Do(Insert(T, {Row(k, v)}), S) = Become(S, T, Service!Put(S[T], k, v))
    BY <2>1, DoInsertRow
  <2> QED BY <1>3, <2>2
<1> QED BY <1>2, <1>3

(***************************************************************************)
(* The effect of a request, table by table.                                *)
(***************************************************************************)
LEMMA EffectShape ==
  ASSUME NEW m, NEW S, IsStore(S)
  PROVE  /\ m.api = "registration" => Service!Effect(m, S) =
              Become(Become(S, RegInfo,
                       IF Service!Holds(S[RegInfo], <<m.uid, m.email>>) THEN S[RegInfo]
                       ELSE Service!Put(S[RegInfo], <<m.uid, m.email>>, Absent)),
                     Phone, Service!Put(S[Phone], <<m.uid>>, Absent))
         /\ m.api = "update_avatar" => Service!Effect(m, S) =
              Become(S, RegInfo,
                {<<p[1], IF p[1][1] = m.uid THEN m.url ELSE p[2]>> : p \in S[RegInfo]})
         /\ m.api = "update_profile" => Service!Effect(m, S) =
              Become(Become(S, Address,
                       IF m.address = Absent /\ Service!Holds(S[Address], <<m.uid>>)
                       THEN S[Address]
                       ELSE Service!Put(S[Address], <<m.uid>>, m.address)),
                     Social,
                     Service!PutHandle(
                       Service!PutHandle(S[Social], m.uid, "facebook", m.facebook),
                       m.uid, "twitter", m.twitter))
         /\ m.api = "cxn_request" => Service!Effect(m, S) =
              Become(Become(S, Request,
                       Service!Put(S[Request], <<m.from, m.to>>, m.flag)),
                     Channel,
                     IF m.flag # "closed" THEN S[Channel]
                     ELSE {p \in S[Channel] : <<p[1][1], p[1][2]>> # <<m.from, m.to>>}
                          \cup Service!Granted(m, S))
         /\ m.api = "cxn_channel" => Service!Effect(m, S) =
              Become(S, Channel,
                     Service!Put(S[Channel], <<m.from, m.to, m.type>>, Absent))
         /\ m.api = "cxn_preference" => Service!Effect(m, S) =
              Become(S, Preference,
                Service!Remove(S[Preference],
                               {<<m.uid, m.list[i].channel>> : i \in DOMAIN m.list})
                \cup {<<<<m.uid, m.list[i].channel>>, m.list[i].flag>> :
                        i \in DOMAIN m.list})
         /\ m.api = "location" => Service!Effect(m, S) =
              Become(S, Location, Service!Put(S[Location], <<m.uid>>, m.place))
<1>1. CASE m.api = "registration"
  BY <1>1 DEF Service!Effect, Become, RegInfo, Phone, IsStore, TableNames
<1>2. CASE m.api = "update_avatar"
  BY <1>2 DEF Service!Effect, Become, RegInfo
<1>3. CASE m.api = "update_profile"
  BY <1>3 DEF Service!Effect, Become, Address, Social, IsStore, TableNames
<1>4. CASE m.api = "cxn_request"
  BY <1>4 DEF Service!Effect, Become, Request, Channel, IsStore, TableNames
<1>5. CASE m.api = "cxn_channel"
  BY <1>5 DEF Service!Effect, Become, Channel
<1>6. CASE m.api = "cxn_preference"
  BY <1>6 DEF Service!Effect, Become, Preference
<1>7. CASE m.api = "location"
  BY <1>7 DEF Service!Effect, Become, Location
<1> QED BY <1>1, <1>2, <1>3, <1>4, <1>5, <1>6, <1>7

(***************************************************************************)
(* The plans the lookups build.                                            *)
(***************************************************************************)
LEMMA PutSame ==
  ASSUME NEW rel, NEW k, NEW v,
         \A q \in rel : q = <<q[1], q[2]>> /\ (q[1] = k => q[2] = v)
  PROVE  Service!Put(rel, k, v) = rel \cup {<<k, v>>}
<1>1. \A q \in rel : q[1] = k => q = <<k, v>>
  OBVIOUS
<1> QED BY <1>1 DEF Service!Put

LEMMA BecomeSame ==
  ASSUME NEW S, IsStore(S), NEW T \in TableNames
  PROVE  Become(S, T, S[T]) = S
BY DEF Become, IsStore

LEMMA TablesAreNames ==
  /\ RegInfo \in TableNames /\ Phone \in TableNames /\ Address \in TableNames
  /\ Social \in TableNames /\ Request \in TableNames /\ Channel \in TableNames
  /\ Preference \in TableNames /\ Location \in TableNames
BY DEF TableNames

LEMMA PairsAreTyped ==
  ASSUME NEW t, TablesOK(t), NEW T \in TableNames, NEW q \in Stored(t)[T]
  PROVE  q[1] \in KeysOf[T] /\ q[2] \in ValuesOf[T] /\ q = <<q[1], q[2]>>
BY StoredPairs, StoredIsStore DEF TablesOK, RowsOK, IsStore

LEMMA RegistrationBuilds ==
  ASSUME TablesOK(view),
         \A r \in view[RegInfo] : ~(r.key[1] = msg.uid \/ r.key[2] = msg.email),
         msg.api = "registration"
  PROVE  Run(<<Insert(RegInfo, {Row(<<msg.uid, msg.email>>, Absent)}),
               Insert(Phone, {Row(<<msg.uid>>, Absent)})>>, Stored(view))
           = Service!Effect(msg, Stored(view))
<1> DEFINE S == Stored(view)
           k == <<msg.uid, msg.email>>
           u == <<msg.uid>>
           A == Become(S, RegInfo, S[RegInfo] \cup {<<k, Absent>>})
           first == Insert(RegInfo, {Row(k, Absent)})
           second == Insert(Phone, {Row(u, Absent)})
<1>1. IsStore(S)
  BY StoredIsStore
<1>2. ~Service!Holds(S[RegInfo], k)
  <2>1. k \notin Keys(view[RegInfo])
    BY DEF Keys
  <2> HIDE DEF k
  <2> QED BY <2>1, TablesAreNames, HoldsFound
<1>3. \A q \in S[Phone] : q = <<q[1], q[2]>> /\ q[2] = Absent
  <2>1. ValuesOf[Phone] = {Absent}
    BY DEF ValuesOf, Phone
  <2> QED BY <2>1, PairsAreTyped, TablesAreNames
<1>4. Service!Put(S[Phone], u, Absent) = S[Phone] \cup {<<u, Absent>>}
  <2> HIDE DEF S, u
  <2> QED BY <1>3, PutSame
<1>5. Service!Put(S[RegInfo], k, Absent) = S[RegInfo] \cup {<<k, Absent>>}
  <2> HIDE DEF k, S
  <2> QED BY <1>1, <1>2, PutCases, TablesAreNames DEF IsStore
<1>6. Do(first, S) = A
  <2> HIDE DEF k, S
  <2> QED BY <1>1, DoInsertRow, TablesAreNames
<1>7. IsStore(A) /\ A[Phone] = S[Phone]
  <2>1. \A q \in S[RegInfo] \cup {<<k, Absent>>} : q = <<q[1], q[2]>>
    <3> HIDE DEF k, S
    <3>1. <<k, Absent>> = << <<k, Absent>>[1], <<k, Absent>>[2] >>
      OBVIOUS
    <3> QED BY <1>1, <3>1, TablesAreNames DEF IsStore
  <2> HIDE DEF k, S
  <2> QED BY <1>1, <2>1, BecomeIsStore, TablesAreNames, KeptNames
<1>8. Do(second, A) = Become(A, Phone, S[Phone] \cup {<<u, Absent>>})
  <2>1. Do(second, A) = Become(A, Phone, A[Phone] \cup {<<u, Absent>>})
    <3> HIDE DEF u, A, S
    <3> QED BY <1>7, DoInsertRow, TablesAreNames
  <2> HIDE DEF u, A, S, second
  <2> QED BY <1>7, <2>1
<1>9. Service!Effect(msg, S) = Become(A, Phone, S[Phone] \cup {<<u, Absent>>})
  BY <1>1, <1>2, <1>4, <1>5, EffectShape
<1>10. Run(<<first, second>>, S) = Do(second, Do(first, S))
  <2> HIDE DEF first, second, S
  <2> QED BY RunLiterals
<1> HIDE DEF A
<1>11. Run(<<first, second>>, S) = Service!Effect(msg, S)
  BY <1>6, <1>8, <1>9, <1>10
<1> QED BY <1>11

LEMMA AvatarBuilds ==
  ASSUME TablesOK(view), msg.api = "update_avatar"
  PROVE  Run(<<Update(RegInfo, {msg.uid} \X Emails, msg.url)>>, Stored(view))
           = Service!Effect(msg, Stored(view))
<1> DEFINE S == Stored(view)
           keys == {msg.uid} \X Emails
           a(p) == <<p[1], IF p[1] \in keys THEN msg.url ELSE p[2]>>
           b(p) == <<p[1], IF p[1][1] = msg.uid THEN msg.url ELSE p[2]>>
<1>1. IsStore(S)
  BY StoredIsStore
<1>2. \A q \in S[RegInfo] : a(q) = b(q)
  <2>1. \A q \in S[RegInfo] : q[1] \in Uids \X Emails
    <3>1. KeysOf[RegInfo] = Uids \X Emails
      BY DEF KeysOf, RegInfo
    <3> QED BY <3>1, PairsAreTyped, TablesAreNames
  <2>2. \A k \in Uids \X Emails : k \in keys <=> k[1] = msg.uid
    OBVIOUS
  <2> HIDE DEF S
  <2> QED BY <2>1, <2>2
<1>3. Do(Update(RegInfo, keys, msg.url), S) = Become(S, RegInfo, {a(p) : p \in S[RegInfo]})
  <2> HIDE DEF S, keys
  <2> QED BY <1>1, DoBecomes, TablesAreNames
<1>4. Service!Effect(msg, S) = Become(S, RegInfo, {b(p) : p \in S[RegInfo]})
  <2> HIDE DEF S
  <2> QED BY <1>1, EffectShape
<1>5. {a(p) : p \in S[RegInfo]} = {b(p) : p \in S[RegInfo]}
  <2> HIDE DEF a, b, S
  <2> QED BY <1>2
<1>6. Run(<<Update(RegInfo, keys, msg.url)>>, S) = Do(Update(RegInfo, keys, msg.url), S)
  BY RunLiterals
<1> HIDE DEF a, b
<1> QED BY <1>3, <1>4, <1>5, <1>6

\* the first lookup of a profile
AddressPut(S) ==
  IF msg.address = Absent /\ Service!Holds(S[Address], <<msg.uid>>) THEN S[Address]
  ELSE Service!Put(S[Address], <<msg.uid>>, msg.address)

LEMMA ProfileMessage ==
  ASSUME msg \in Messages, msg.api = "update_profile"
  PROVE  /\ LET m == [msg EXCEPT !.facebook = Absent, !.twitter = Absent]
            IN  /\ m.api = "update_profile" /\ m.uid = msg.uid
                /\ m.address = msg.address
                /\ m.facebook = Absent /\ m.twitter = Absent
         /\ LET m == [msg EXCEPT !.twitter = Absent]
            IN  /\ m.api = "update_profile" /\ m.uid = msg.uid
                /\ m.address = msg.address
                /\ m.facebook = msg.facebook /\ m.twitter = Absent
<1>1. msg \in ProfileMsg
  BY MessagesAssumption
     DEF Message, RegistrationMsg, AvatarMsg, ProfileMsg, CxnRequestMsg,
         CxnChannelMsg, CxnPreferenceMsg, LocationMsg
<1> QED BY <1>1 DEF ProfileMsg

\* the contents once the address is written
AddressStore(S) == Become(S, Address, AddressPut(S))

LEMMA ProfileEffect ==
  ASSUME msg \in Messages, msg.api = "update_profile", NEW S, IsStore(S)
  PROVE  /\ Planned("facebook", msg, S) = AddressStore(S)
         /\ Planned("twitter", msg, S) =
              Become(AddressStore(S), Social,
                Service!PutHandle(S[Social], msg.uid, "facebook", msg.facebook))
         /\ Planned("start", msg, S) =
              Become(AddressStore(S), Social,
                Service!PutHandle(
                  Service!PutHandle(S[Social], msg.uid, "facebook", msg.facebook),
                  msg.uid, "twitter", msg.twitter))
         /\ IsStore(AddressStore(S)) /\ AddressStore(S)[Social] = S[Social]
<1>1. \A q \in AddressPut(S) : q = <<q[1], q[2]>>
  <2>1. \A q \in S[Address] : q = <<q[1], q[2]>>
    BY TablesAreNames DEF IsStore
  <2> QED BY <2>1, PutCases DEF AddressPut
<1>2. Address # Social
  BY TableTexts
<1>3. IsStore(AddressStore(S)) /\ AddressStore(S)[Social] = S[Social]
  BY <1>1, <1>2, BecomeIsStore, TablesAreNames DEF AddressStore
<1>4. \A rel, u, n : Service!PutHandle(rel, u, n, Absent) = rel
  BY MessagesAssumption DEF Service!PutHandle
<1>5. Become(AddressStore(S), Social, S[Social]) = AddressStore(S)
  BY <1>3, BecomeSame, TablesAreNames
<1>6. Planned("facebook", msg, S) = AddressStore(S)
  <2> DEFINE m == [msg EXCEPT !.facebook = Absent, !.twitter = Absent]
  <2>1. /\ m.api = "update_profile" /\ m.uid = msg.uid /\ m.address = msg.address
        /\ m.facebook = Absent /\ m.twitter = Absent
    BY ProfileMessage
  <2>2. Planned("facebook", msg, S) = Service!Effect(m, S)
    BY DEF Planned
  <2> HIDE DEF m
  <2>3. Service!Effect(m, S) =
          Become(AddressStore(S), Social,
            Service!PutHandle(
              Service!PutHandle(S[Social], msg.uid, "facebook", Absent),
              msg.uid, "twitter", Absent))
    BY <2>1, EffectShape DEF AddressStore, AddressPut
  <2> QED BY <1>4, <1>5, <2>2, <2>3
<1>7. Planned("twitter", msg, S) =
        Become(AddressStore(S), Social,
          Service!PutHandle(S[Social], msg.uid, "facebook", msg.facebook))
  <2> DEFINE m == [msg EXCEPT !.twitter = Absent]
  <2>1. /\ m.api = "update_profile" /\ m.uid = msg.uid /\ m.address = msg.address
        /\ m.facebook = msg.facebook /\ m.twitter = Absent
    BY ProfileMessage
  <2>2. Planned("twitter", msg, S) = Service!Effect(m, S)
    BY DEF Planned
  <2> HIDE DEF m
  <2>3. Service!Effect(m, S) =
          Become(AddressStore(S), Social,
            Service!PutHandle(
              Service!PutHandle(S[Social], msg.uid, "facebook", msg.facebook),
              msg.uid, "twitter", Absent))
    BY <2>1, EffectShape DEF AddressStore, AddressPut
  <2> QED BY <1>4, <2>2, <2>3
<1>8. Planned("start", msg, S) =
        Become(AddressStore(S), Social,
          Service!PutHandle(
            Service!PutHandle(S[Social], msg.uid, "facebook", msg.facebook),
            msg.uid, "twitter", msg.twitter))
  BY EffectShape DEF AddressStore, AddressPut, Planned
<1> QED BY <1>3, <1>6, <1>7, <1>8

LEMMA AddressBuilds ==
  ASSUME msg \in Messages, msg.api = "update_profile",
         NEW p, p = IF Found(Address, <<msg.uid>>)
                    THEN IF msg.address = Absent THEN <<>>
                         ELSE <<Update(Address, {<<msg.uid>>}, msg.address)>>
                    ELSE <<Insert(Address, {Row(<<msg.uid>>, msg.address)})>>
  PROVE  Run(p, Stored(view)) = AddressStore(Stored(view)) /\ Len(p) <= 1
<1> DEFINE S == Stored(view)
           k == <<msg.uid>>
           s == IF Found(Address, k) THEN Update(Address, {k}, msg.address)
                ELSE Insert(Address, {Row(k, msg.address)})
<1>1. IsStore(S) /\ Address \in TableNames
  BY StoredIsStore, TablesAreNames
<1>2. Found(Address, k) <=> Service!Holds(S[Address], k)
  <2> HIDE DEF k
  <2> QED BY <1>1, HoldsFound DEF Found
<1>3. Do(s, S) = Become(S, Address, Service!Put(S[Address], k, msg.address))
  <2> DEFINE found == Found(Address, k)
  <2> HIDE DEF S, k, found
  <2> QED BY <1>1, <1>2, UpsertPuts DEF found
<1>4. p = <<>> \/ p = <<s>>
  OBVIOUS
<1>5. p = <<>> <=> msg.address = Absent /\ Service!Holds(S[Address], k)
  <2>1. \A x : <<x>> # <<>>
    OBVIOUS
  <2> HIDE DEF S, k
  <2> QED BY <1>2, <2>1 DEF k
<1>6. Become(S, Address, S[Address]) = S
  BY <1>1, BecomeSame
<1>7. \A x : Run(<<x>>, S) = Do(x, S) /\ Run(<<>>, S) = S
  BY RunLiterals
<1>8. Len(<<>>) = 0 /\ \A x : Len(<<x>>) = 1
  OBVIOUS
<1>9. p = <<>> => Run(p, S) = AddressStore(S)
  BY <1>5, <1>6, <1>7 DEF AddressStore, AddressPut
<1>10. p = <<s>> /\ p # <<>> => Run(p, S) = AddressStore(S)
  <2> HIDE DEF s, S
  <2> QED BY <1>3, <1>5, <1>7 DEF AddressStore, AddressPut
<1>11. Len(p) <= 1
  <2> HIDE DEF s
  <2> QED BY <1>4, <1>8
<1> QED BY <1>4, <1>9, <1>10, <1>11

\* a handle is put, deleted or left alone
LEMMA HandleBuilds ==
  ASSUME NEW network, NEW handle, NEW E, IsStore(E), NEW p, PlanOK(p), Len(p) <= 2,
         NEW S, Run(p, S) = E,
         Found(Social, <<msg.uid, network>>)
           <=> Service!Holds(E[Social], <<msg.uid, network>>)
  PROVE  LET q == p \o SocialStatement(network, handle)
         IN  /\ Run(q, S) = Become(E, Social,
                  Service!PutHandle(E[Social], msg.uid, network, handle))
             /\ Len(q) <= Len(p) + 1
<1> DEFINE k == <<msg.uid, network>>
           found == Found(Social, k)
           d == Delete(Social, {k})
           s == IF found THEN Update(Social, {k}, handle)
                ELSE Insert(Social, {Row(k, handle)})
           put == Service!PutHandle(E[Social], msg.uid, network, handle)
           st == SocialStatement(network, handle)
<1>1. Social \in TableNames /\ \A q \in E[Social] : q = <<q[1], q[2]>>
  BY TablesAreNames DEF IsStore
<1>2. Len(p) \in Nat /\ p \o <<>> = p
  <2> DEFINE X == {p[i] : i \in DOMAIN p}
  <2>1. p \in Seq(X)
    BY DEF PlanOK
  <2> HIDE DEF X
  <2> QED BY <2>1, ConcatEmptySeq
<1>3. \A x : Run(p \o <<x>>, S) = Do(x, E) /\ Len(p \o <<x>>) = Len(p) + 1
  BY RunAppend
<1>4. CASE handle = Absent
  <2>1. st = <<>> /\ put = E[Social]
    BY <1>4, MessagesAssumption DEF SocialStatement, Service!PutHandle
  <2>2. Become(E, Social, E[Social]) = E
    BY <1>1, BecomeSame
  <2> HIDE DEF st, put
  <2>3. Run(p \o st, S) = Become(E, Social, put) /\ Len(p \o st) <= Len(p) + 1
    BY <1>2, <2>1, <2>2
  <2> QED BY <2>3 DEF st, put
<1>5. CASE handle = ""
  <2>1. st = <<d>> /\ put = {q \in E[Social] : q[1] \notin {k}}
    BY <1>5, MessagesAssumption
       DEF SocialStatement, Service!PutHandle, Service!Remove
  <2>2. Do(d, E) = Become(E, Social, {q \in E[Social] : q[1] \notin {k}})
    <3> HIDE DEF k
    <3> QED BY <1>1, DoBecomes
  <2> HIDE DEF st, put, d
  <2>3. Run(p \o st, S) = Become(E, Social, put) /\ Len(p \o st) <= Len(p) + 1
    BY <1>2, <1>3, <2>1, <2>2
  <2> QED BY <2>3 DEF st, put
<1>6. CASE handle # Absent /\ handle # ""
  <2>1. st = <<s>> /\ put = Service!Put(E[Social], k, handle)
    BY <1>6 DEF SocialStatement, Service!PutHandle
  <2>2. Do(s, E) = Become(E, Social, Service!Put(E[Social], k, handle))
    <3> HIDE DEF k, found
    <3> QED BY <1>1, UpsertPuts DEF found, k
  <2> HIDE DEF st, put, s
  <2>3. Run(p \o st, S) = Become(E, Social, put) /\ Len(p \o st) <= Len(p) + 1
    BY <1>2, <1>3, <2>1, <2>2
  <2> QED BY <2>3 DEF st, put
<1> QED BY <1>4, <1>5, <1>6

\* the other network's handle is not touched
LEMMA HandleApart ==
  ASSUME NEW rel, NEW u, NEW handle
  PROVE  Service!Holds(Service!PutHandle(rel, u, "facebook", handle), <<u, "twitter">>)
           <=> Service!Holds(rel, <<u, "twitter">>)
<1> DEFINE f == <<u, "facebook">>
           t == <<u, "twitter">>
<1>1. f # t
  OBVIOUS
<1>2. <<f, handle>>[1] = f
  OBVIOUS
<1>3. Service!PutHandle(rel, u, "facebook", handle) \in
        {rel, Service!Remove(rel, {f}), Service!Put(rel, f, handle)}
  BY DEF Service!PutHandle
<1> HIDE DEF f, t
<1>4. Service!Holds(Service!Put(rel, f, handle), t) <=> Service!Holds(rel, t)
  BY <1>1, <1>2 DEF Service!Holds, Service!Put
<1>5. Service!Holds(Service!Remove(rel, {f}), t) <=> Service!Holds(rel, t)
  BY <1>1 DEF Service!Holds, Service!Remove
<1> QED BY <1>3, <1>4, <1>5 DEF t

LEMMA HandleIsRel ==
  ASSUME NEW rel, \A q \in rel : q = <<q[1], q[2]>>, NEW u, NEW network, NEW handle
  PROVE  \A q \in Service!PutHandle(rel, u, network, handle) : q = <<q[1], q[2]>>
<1>1. Service!PutHandle(rel, u, network, handle) \in
        {rel, Service!Remove(rel, {<<u, network>>}),
         Service!Put(rel, <<u, network>>, handle)}
  BY DEF Service!PutHandle
<1>2. \A q \in Service!Put(rel, <<u, network>>, handle) : q = <<q[1], q[2]>>
  BY PutCases
<1>3. \A q \in Service!Remove(rel, {<<u, network>>}) : q = <<q[1], q[2]>>
  BY DEF Service!Remove
<1> QED BY <1>1, <1>2, <1>3

LEMMA BecomeTwice ==
  ASSUME NEW S, NEW T, NEW a, NEW b, IsStore(S), T \in TableNames
  PROVE  Become(Become(S, T, a), T, b) = Become(S, T, b)
BY DEF Become, IsStore

LEMMA SocialBuilds ==
  ASSUME msg \in Messages, msg.api = "update_profile", PlanOK(plan)
  PROVE  /\ Run(plan, Stored(view)) = Planned("facebook", msg, Stored(view))
              /\ Len(plan) <= 1
            => LET q == plan \o SocialStatement("facebook", msg.facebook)
               IN  Run(q, Stored(view)) = Planned("twitter", msg, Stored(view))
                   /\ Len(q) <= 2
         /\ Run(plan, Stored(view)) = Planned("twitter", msg, Stored(view))
              /\ Len(plan) <= 2
            => LET q == plan \o SocialStatement("twitter", msg.twitter)
               IN  Run(q, Stored(view)) = Planned("start", msg, Stored(view))
                   /\ Len(q) <= 3
<1> DEFINE S == Stored(view)
           A == AddressStore(S)
           rel == Service!PutHandle(S[Social], msg.uid, "facebook", msg.facebook)
           F == Become(A, Social, rel)
           f == plan \o SocialStatement("facebook", msg.facebook)
           t == plan \o SocialStatement("twitter", msg.twitter)
<1>1. IsStore(S) /\ Social \in TableNames
  BY StoredIsStore, TablesAreNames
<1>2. \A n : Found(Social, <<msg.uid, n>>) <=> Service!Holds(S[Social], <<msg.uid, n>>)
  <2> SUFFICES ASSUME NEW n
               PROVE  Found(Social, <<msg.uid, n>>)
                        <=> Service!Holds(S[Social], <<msg.uid, n>>)
    OBVIOUS
  <2> DEFINE k == <<msg.uid, n>>
  <2> HIDE DEF k
  <2> QED BY <1>1, HoldsFound DEF Found, k
<1>3. Len(plan) \in Nat
  <2> DEFINE X == {plan[i] : i \in DOMAIN plan}
  <2>1. plan \in Seq(X)
    BY DEF PlanOK
  <2> HIDE DEF X
  <2> QED BY <2>1
<1> HIDE DEF S
<1>4. /\ Planned("facebook", msg, S) = A
      /\ Planned("twitter", msg, S) = F
      /\ Planned("start", msg, S) = Become(A, Social,
           Service!PutHandle(rel, msg.uid, "twitter", msg.twitter))
      /\ IsStore(A) /\ A[Social] = S[Social]
  BY <1>1, ProfileEffect
<1>5. \A q \in rel : q = <<q[1], q[2]>>
  BY <1>1, HandleIsRel DEF IsStore
<1> HIDE DEF A
<1>6. IsStore(F) /\ F[Social] = rel
  <2> HIDE DEF rel
  <2> QED BY <1>1, <1>4, <1>5, BecomeIsStore
<1>7. ASSUME Run(plan, S) = A, Len(plan) <= 1
      PROVE  Run(f, S) = F /\ Len(f) <= 2
  <2>1. Found(Social, <<msg.uid, "facebook">>)
          <=> Service!Holds(A[Social], <<msg.uid, "facebook">>)
    BY <1>2, <1>4
  <2>2. Len(plan) <= 2
    BY <1>3, <1>7
  <2>3. /\ Run(f, S) = Become(A, Social,
             Service!PutHandle(A[Social], msg.uid, "facebook", msg.facebook))
        /\ Len(f) <= Len(plan) + 1
    BY <1>4, <1>7, <2>1, <2>2, HandleBuilds
  <2>4. Run(f, S) = F
    BY <1>4, <2>3
  <2> HIDE DEF f, F
  <2> QED BY <1>3, <1>7, <2>3, <2>4
<1>8. ASSUME Run(plan, S) = F, Len(plan) <= 2
      PROVE  /\ Run(t, S) = Planned("start", msg, S)
             /\ Len(t) <= 3
  <2>1. Found(Social, <<msg.uid, "twitter">>)
          <=> Service!Holds(F[Social], <<msg.uid, "twitter">>)
    BY <1>2, <1>6, HandleApart
  <2>2. /\ Run(t, S) = Become(F, Social,
             Service!PutHandle(F[Social], msg.uid, "twitter", msg.twitter))
        /\ Len(t) <= Len(plan) + 1
    <3> HIDE DEF F
    <3> QED BY <1>6, <1>8, <2>1, HandleBuilds
  <2>3. Become(F, Social, Service!PutHandle(F[Social], msg.uid, "twitter", msg.twitter))
          = Planned("start", msg, S)
    BY <1>1, <1>4, <1>6, BecomeTwice
  <2> HIDE DEF t, F
  <2> QED BY <1>3, <1>8, <2>2, <2>3
<1> QED BY <1>4, <1>7, <1>8 DEF S

LEMMA RequestBuilds ==
  ASSUME NEW s, s = IF Found(Request, <<msg.from, msg.to>>)
                    THEN Update(Request, {<<msg.from, msg.to>>}, msg.flag)
                    ELSE Insert(Request, {Row(<<msg.from, msg.to>>, msg.flag)}),
         msg.api = "cxn_request"
  PROVE  /\ Run(<<s>>, Stored(view)) = Planned("public", msg, Stored(view))
         /\ msg.flag # "closed" =>
              Run(<<s>>, Stored(view)) = Planned("start", msg, Stored(view))
<1> DEFINE S == Stored(view)
           k == <<msg.from, msg.to>>
           R == Become(S, Request, Service!Put(S[Request], k, msg.flag))
           found == Found(Request, k)
<1>1. IsStore(S) /\ Request \in TableNames /\ Channel \in TableNames
  BY StoredIsStore, TablesAreNames
<1>2. found <=> Service!Holds(S[Request], k)
  <2> HIDE DEF k
  <2> QED BY <1>1, HoldsFound DEF Found
<1>3. Do(s, S) = R
  <2>1. s = IF found THEN Update(Request, {k}, msg.flag)
            ELSE Insert(Request, {Row(k, msg.flag)})
    OBVIOUS
  <2> HIDE DEF S, k, found
  <2> QED BY <1>1, <1>2, <2>1, UpsertPuts
<1>4. Run(<<s>>, S) = Do(s, S)
  BY RunLiterals
<1>5. Planned("public", msg, S) = R
  BY DEF Planned, Become, Request
<1>6. IsStore(R) /\ R[Channel] = S[Channel]
  <2>1. \A q \in Service!Put(S[Request], k, msg.flag) : q = <<q[1], q[2]>>
    <3> HIDE DEF k, S
    <3> QED BY <1>1, PutCases DEF IsStore
  <2> HIDE DEF k, S
  <2> QED BY <1>1, <2>1, BecomeIsStore, TableTexts
<1>7. ASSUME msg.flag # "closed" PROVE Planned("start", msg, S) = R
  <2>1. Planned("start", msg, S) = Become(R, Channel, S[Channel])
    <3> HIDE DEF S
    <3> QED BY <1>1, <1>7, EffectShape DEF Planned
  <2> HIDE DEF R, S
  <2> QED BY <1>1, <1>6, <2>1, BecomeSame
<1> HIDE DEF R, S
<1> QED BY <1>3, <1>4, <1>5, <1>7 DEF S

LEMMA LocationBuilds ==
  ASSUME NEW s, s = IF Found(Location, <<msg.uid>>)
                    THEN Update(Location, {<<msg.uid>>}, msg.place)
                    ELSE Insert(Location, {Row(<<msg.uid>>, msg.place)}),
         msg.api = "location"
  PROVE  Run(<<s>>, Stored(view)) = Service!Effect(msg, Stored(view))
<1> DEFINE S == Stored(view)
           k == <<msg.uid>>
           found == Found(Location, k)
<1>1. IsStore(S) /\ Location \in TableNames
  BY StoredIsStore, TablesAreNames
<1>2. found <=> Service!Holds(S[Location], k)
  <2> HIDE DEF k
  <2> QED BY <1>1, HoldsFound DEF Found
<1>3. Do(s, S) = Become(S, Location, Service!Put(S[Location], k, msg.place))
  <2> HIDE DEF S, k, found
  <2> QED BY <1>1, <1>2, UpsertPuts DEF found, k
<1>4. Run(<<s>>, S) = Do(s, S)
  BY RunLiterals
<1> HIDE DEF S
<1> QED BY <1>1, <1>3, <1>4, EffectShape DEF S

LEMMA ChannelBuilds ==
  ASSUME ~Found(Channel, <<msg.from, msg.to, msg.type>>), msg.api = "cxn_channel"
  PROVE  Run(<<Insert(Channel, {Row(<<msg.from, msg.to, msg.type>>, Absent)})>>,
             Stored(view))
           = Service!Effect(msg, Stored(view))
<1> DEFINE S == Stored(view)
           k == <<msg.from, msg.to, msg.type>>
           s == Insert(Channel, {Row(k, Absent)})
<1>1. IsStore(S) /\ Channel \in TableNames /\ \A q \in S[Channel] : q = <<q[1], q[2]>>
  BY StoredIsStore, TablesAreNames DEF IsStore
<1>2. ~Service!Holds(S[Channel], k)
  <2> HIDE DEF k
  <2> QED BY <1>1, HoldsFound DEF Found, k
<1>3. Do(s, S) = Become(S, Channel, Service!Put(S[Channel], k, Absent))
  <2> HIDE DEF S, k
  <2>1. Service!Put(S[Channel], k, Absent) = S[Channel] \cup {<<k, Absent>>}
    BY <1>1, <1>2, PutCases
  <2> QED BY <1>1, <2>1, DoInsertRow
<1>4. Run(<<s>>, S) = Do(s, S)
  BY RunLiterals
<1> HIDE DEF S, s
<1> QED BY <1>1, <1>3, <1>4, EffectShape DEF S, s

LEMMA PreferenceBuilds ==
  ASSUME msg.api = "cxn_preference"
  PROVE  LET list == msg.list
             keys == {<<msg.uid, list[i].channel>> : i \in DOMAIN list}
             rows == {[key |-> <<msg.uid, list[i].channel>>, val |-> list[i].flag,
                       id |-> i] : i \in DOMAIN list}
         IN  Run(<<Delete(Preference, keys), Insert(Preference, rows)>>, Stored(view))
               = Service!Effect(msg, Stored(view))
<1> DEFINE S == Stored(view)
           list == msg.list
           keys == {<<msg.uid, list[i].channel>> : i \in DOMAIN list}
           row(i) == [key |-> <<msg.uid, list[i].channel>>, val |-> list[i].flag,
                      id |-> i]
           rows == {row(i) : i \in DOMAIN list}
           new(i) == <<<<msg.uid, list[i].channel>>, list[i].flag>>
           kept == {q \in S[Preference] : q[1] \notin keys}
           D == Become(S, Preference, kept)
           d == Delete(Preference, keys)
           s == Insert(Preference, rows)
<1>1. IsStore(S) /\ Preference \in TableNames
      /\ \A q \in S[Preference] : q = <<q[1], q[2]>>
  BY StoredIsStore, TablesAreNames DEF IsStore
<1>2. Pairs(rows) = {new(i) : i \in DOMAIN list}
  <2>1. \A i : <<row(i).key, row(i).val>> = new(i)
    OBVIOUS
  <2> HIDE DEF row, new
  <2> QED BY <2>1 DEF Pairs
<1>3. Do(d, S) = D
  <2> HIDE DEF keys, S
  <2> QED BY <1>1, DoBecomes
<1>4. IsStore(D) /\ D[Preference] = kept
  <2>1. \A q \in kept : q = <<q[1], q[2]>>
    BY <1>1
  <2> HIDE DEF kept, S
  <2> QED BY <1>1, <2>1, BecomeIsStore
<1>5. Do(s, D) = Become(D, Preference, kept \cup {new(i) : i \in DOMAIN list})
  <2> HIDE DEF rows, D, kept, new
  <2> QED BY <1>1, <1>2, <1>4, DoBecomes
<1>6. Do(s, D) = Become(S, Preference, kept \cup {new(i) : i \in DOMAIN list})
  <2> HIDE DEF kept, new, s, S
  <2> QED BY <1>1, <1>5, BecomeTwice
<1>7. Service!Effect(msg, S) =
        Become(S, Preference, kept \cup {new(i) : i \in DOMAIN list})
  <2>1. Service!Effect(msg, S) =
          Become(S, Preference, Service!Remove(S[Preference], keys)
                                  \cup {new(i) : i \in DOMAIN list})
    <3> HIDE DEF S
    <3> QED BY DEF Service!Effect, Become, Preference
  <2>2. Service!Remove(S[Preference], keys) = kept
    <3> HIDE DEF keys, S
    <3> QED BY DEF Service!Remove
  <2> HIDE DEF kept, new, keys, S
  <2> QED BY <2>1, <2>2
<1>8. Run(<<d, s>>, S) = Do(s, Do(d, S))
  <2> HIDE DEF d, s, S
  <2> QED BY RunLiterals
<1>9. Run(<<d, s>>, S) = Service!Effect(msg, S)
  <2> HIDE DEF kept, new, s, d, S
  <2> QED BY <1>3, <1>6, <1>7, <1>8
<1> QED BY <1>9

LEMMA ExposedChannels ==
  Service!Exposed(msg, Stored(view)) = {r.key[2] : r \in ExposedRows(view)}
<1>1. Preference \in TableNames /\ Preference = "UserConnectPreferences"
  BY TablesAreNames, TableTexts
<1>2. ASSUME NEW p \in Stored(view)["UserConnectPreferences"],
             p[1][1] = msg.to, p[2] = "public"
      PROVE  p[1][2] \in {r.key[2] : r \in ExposedRows(view)}
  BY <1>1, <1>2, StoredPairs DEF ExposedRows
<1>3. ASSUME NEW r \in ExposedRows(view)
      PROVE  \E p \in Stored(view)["UserConnectPreferences"] :
               p[1][1] = msg.to /\ p[2] = "public" /\ p[1][2] = r.key[2]
  BY <1>1, StoredPairs DEF ExposedRows
<1> QED BY <1>2, <1>3 DEF Service!Exposed

LEMMA GrantedPairs ==
  Pairs(GrantedRows(view)) = Service!Granted(msg, Stored(view))
<1> DEFINE open(c) == <<<<msg.from, msg.to, c>>, Absent>>
           C == {r.key[2] : r \in ExposedRows(view)}
<1>1. Service!Granted(msg, Stored(view)) =
        {open(c) : c \in IF C = {} THEN {"connect"} ELSE C}
  BY ExposedChannels DEF Service!Granted
<1>2. C = {} <=> ExposedRows(view) = {}
  OBVIOUS
<1>3. CASE ExposedRows(view) = {}
  <2> DEFINE k == <<msg.from, msg.to, "connect">>
  <2>1. Pairs({Row(k, Absent)}) = {<<k, Absent>>}
    <3> HIDE DEF k
    <3> QED BY PairsOfRow
  <2>2. GrantedRows(view) = {Row(k, Absent)}
    BY <1>3 DEF GrantedRows
  <2>3. <<k, Absent>> = open("connect")
    OBVIOUS
  <2> HIDE DEF open, C, k
  <2> QED BY <1>1, <1>2, <1>3, <2>1, <2>2, <2>3
<1>4. CASE ExposedRows(view) # {}
  <2>1. \A r : <<GrantRow(r).key, GrantRow(r).val>> = open(r.key[2])
    BY DEF GrantRow
  <2>2. GrantedRows(view) = {GrantRow(r) : r \in ExposedRows(view)}
    BY <1>4 DEF GrantedRows
  <2>3. Pairs(GrantedRows(view)) = {open(r.key[2]) : r \in ExposedRows(view)}
    <3> HIDE DEF open
    <3> QED BY <2>1, <2>2 DEF Pairs
  <2>4. {open(r.key[2]) : r \in ExposedRows(view)} = {open(c) : c \in C}
    <3> HIDE DEF open
    <3> QED OBVIOUS
  <2>5. Service!Granted(msg, Stored(view)) = {open(c) : c \in C}
    <3> HIDE DEF open, C
    <3> QED BY <1>1, <1>2, <1>4
  <2> HIDE DEF open, C
  <2> QED BY <2>3, <2>4, <2>5
<1> QED BY <1>3, <1>4

LEMMA PairKeysOf ==
  ASSUME NEW k \in Uids \X Uids \X (ChannelIds \cup {"connect"})
  PROVE  k \in PairKeys <=> <<k[1], k[2]>> = <<msg.from, msg.to>>
BY DEF PairKeys

LEMMA PublicBuilds ==
  ASSUME TypeOK, pc = "public", msg.api = "cxn_request", msg.flag = "closed",
         Run(plan, Stored(view)) = Planned("public", msg, Stored(view)),
         Len(plan) <= 1
  PROVE  LET q == plan \o GrantStatements
         IN  /\ Run(q, Stored(view)) = Planned("start", msg, Stored(view))
             /\ Len(q) <= 3
<1> DEFINE S == Stored(view)
           R == Become(S, Request,
                       Service!Put(S[Request], <<msg.from, msg.to>>, msg.flag))
           d == Delete(Channel, PairKeys)
           s == Insert(Channel, GrantedRows(view))
           kept == {p \in S[Channel] : p[1] \notin PairKeys}
           granted == Pairs(GrantedRows(view))
           K == Become(R, Channel, kept)
           q == plan \o <<d, s>>
<1>1. /\ IsStore(S) /\ Channel \in TableNames /\ Request \in TableNames
      /\ Request # Channel
  BY StoredIsStore, TablesAreNames, TableTexts
<1>2. Planned("public", msg, S) = R
  BY DEF Planned, Become, Request
<1>3. kept = {p \in S[Channel] : <<p[1][1], p[1][2]>> # <<msg.from, msg.to>>}
  <2>1. KeysOf[Channel] = Uids \X Uids \X (ChannelIds \cup {"connect"})
    BY DEF KeysOf, Channel
  <2>2. \A p \in S[Channel] : p[1] \in Uids \X Uids \X (ChannelIds \cup {"connect"})
    BY <1>1, <2>1, PairsAreTyped DEF TypeOK, SessionOK
  <2>3. \A p \in S[Channel] :
          p[1] \in PairKeys <=> <<p[1][1], p[1][2]>> = <<msg.from, msg.to>>
    <3> HIDE DEF S
    <3> QED BY <2>2, PairKeysOf
  <2> HIDE DEF S
  <2> QED BY <2>3
<1>4. Planned("start", msg, S) = Become(R, Channel, kept \cup granted)
  <2>1. Service!Effect(msg, S) =
          Become(R, Channel,
            {p \in S[Channel] : <<p[1][1], p[1][2]>> # <<msg.from, msg.to>>}
              \cup Service!Granted(msg, S))
    <3> HIDE DEF S
    <3> QED BY <1>1, EffectShape
  <2>2. granted = Service!Granted(msg, S)
    BY GrantedPairs
  <2>3. Planned("start", msg, S) = Service!Effect(msg, S)
    BY DEF Planned
  <2> HIDE DEF granted, kept, R, S
  <2> QED BY <1>3, <2>1, <2>2, <2>3
<1>5. IsStore(R) /\ R[Channel] = S[Channel]
  <2> DEFINE put == Service!Put(S[Request], <<msg.from, msg.to>>, msg.flag)
  <2>1. \A p \in put : p = <<p[1], p[2]>>
    <3> DEFINE k == <<msg.from, msg.to>>
    <3> HIDE DEF k, S
    <3> QED BY <1>1, PutCases DEF IsStore
  <2>2. R = Become(S, Request, put)
    OBVIOUS
  <2> HIDE DEF put, S, R
  <2> QED BY <1>1, <2>1, <2>2, BecomeIsStore
<1>6. Do(d, R) = K
  <2> HIDE DEF R
  <2> QED BY <1>1, <1>5, DoBecomes
<1>7. IsStore(K) /\ K[Channel] = kept
  <2>1. \A p \in kept : p = <<p[1], p[2]>>
    BY <1>1 DEF IsStore
  <2> HIDE DEF kept, R
  <2> QED BY <1>1, <1>5, <2>1, BecomeIsStore
<1>8. Do(s, K) = Become(R, Channel, kept \cup granted)
  <2>1. Do(s, K) = Become(K, Channel, kept \cup granted)
    <3> HIDE DEF K, kept
    <3> QED BY <1>1, <1>7, DoBecomes
  <2> HIDE DEF kept, granted, R, s
  <2> QED BY <1>1, <1>5, <2>1, BecomeTwice
<1>9. /\ Run(q, S) = Do(s, Do(d, Run(plan, S)))
      /\ Len(q) = Len(plan) + 2
  <2> HIDE DEF d, s, S
  <2> QED BY RunConcatTwo DEF TypeOK, HandlerOK
<1>10. Len(plan) \in Nat
  <2> DEFINE X == {plan[i] : i \in DOMAIN plan}
  <2>1. plan \in Seq(X)
    BY DEF TypeOK, HandlerOK, PlanOK
  <2> HIDE DEF X
  <2> QED BY <2>1
<1>11. GrantStatements = <<d, s>>
  BY DEF GrantStatements
<1>12. Run(q, S) = Planned("start", msg, S) /\ Len(q) <= 3
  <2> HIDE DEF d, s, S, R, K, kept, granted, q
  <2>1. Run(q, S) = Planned("start", msg, S)
    BY <1>2, <1>4, <1>6, <1>8, <1>9 DEF S
  <2>2. Len(q) <= 3
    BY <1>9, <1>10
  <2> QED BY <2>1, <2>2
<1> HIDE DEF d, s
<1> QED BY <1>11, <1>12

(***************************************************************************)
(* The invariant: lookups.                                                 *)
(***************************************************************************)
LEMMA StartBuilding ==
  ASSUME NEW p, Run(p, Stored(view)) = Service!Effect(msg, Stored(view)), Len(p) <= 3
  PROVE  Building("start", p, msg, Stored(view))
BY DEF Building, Planned

LEMMA NothingBuilding ==
  ASSUME NEW point \in {"check", "address", "existing"}, NEW S, NEW m
  PROVE  Building(point, <<>>, m, S)
<1>1. Len(<<>>) = 0
  OBVIOUS
<1>2. 0 <= 3
  OBVIOUS
<1> QED BY <1>1, <1>2, RunLiterals DEF Building, Planned

LEMMA ShortPlans == \A s, t : Len(<<s>>) = 1 /\ Len(<<s, t>>) = 2 /\ 1 <= 3 /\ 2 <= 3 /\ 1 <= 1
OBVIOUS

LEMMA LookupBuilds ==
  ASSUME TypeOK, Building(pc, plan, msg, Stored(view)), Lookup, pc' # "reply"
  PROVE  \E point, n, p : /\ point \notin {"exec", "commit", "idle", "reply"}
                          /\ Go(point, n, p)
                          /\ Building(point, p, msg, Stored(view))
<1> DEFINE S == Stored(view)
<1>1. msg \in Messages /\ TablesOK(view) /\ PlanOK(plan)
  BY LookupCommand, RunningMessage DEF Resting, TypeOK, SessionOK, HandlerOK
<1>2. CASE CheckRegistration
  <2> DEFINE p == <<Insert(RegInfo, {Row(<<msg.uid, msg.email>>, Absent)}),
                    Insert(Phone, {Row(<<msg.uid>>, Absent)})>>
  <2>1. /\ Go("start", 1, p) /\ msg.api = "registration"
        /\ \A r \in view[RegInfo] : ~(r.key[1] = msg.uid \/ r.key[2] = msg.email)
    BY <1>2 DEF CheckRegistration, Finish, At
  <2>2. Run(p, S) = Service!Effect(msg, S)
    BY <1>1, <2>1, RegistrationBuilds
  <2>3. Len(p) <= 3
    BY ShortPlans
  <2> HIDE DEF p
  <2> QED BY <2>1, <2>2, <2>3, StartBuilding
<1>3. CASE CheckAvatar
  <2> DEFINE p == <<Update(RegInfo, {msg.uid} \X Emails, msg.url)>>
  <2>1. Go("start", 2, p) /\ msg.api = "update_avatar"
    BY <1>3 DEF CheckAvatar, BareReturn, Finish, At
  <2>2. Run(p, S) = Service!Effect(msg, S)
    BY <1>1, <2>1, AvatarBuilds
  <2>3. Len(p) <= 3
    BY ShortPlans
  <2> HIDE DEF p
  <2> QED BY <2>1, <2>2, <2>3, StartBuilding
<1>4. CASE CheckProfile \/ CheckBothUids \/ CheckLocation
  <2>1. Go("address", 1, plan) \/ Go("existing", 0, plan)
    BY <1>4 DEF CheckProfile, CheckBothUids, CheckLocation, BareReturn, Finish
  <2>2. plan = <<>>
    BY <1>4 DEF CheckProfile, CheckBothUids, CheckLocation, At, Building
  <2> QED BY <2>1, <2>2, NothingBuilding
<1>5. CASE CheckPreference
  <2> DEFINE list == msg.list
             keys == {<<msg.uid, list[i].channel>> : i \in DOMAIN list}
             rows == {[key |-> <<msg.uid, list[i].channel>>, val |-> list[i].flag,
                       id |-> i] : i \in DOMAIN list}
             p == <<Delete(Preference, keys), Insert(Preference, rows)>>
  <2>1. Go("start", 1, p) /\ msg.api = "cxn_preference"
    BY <1>5 DEF CheckPreference, Finish, At
  <2>2. Run(p, S) = Service!Effect(msg, S)
    BY <2>1, PreferenceBuilds
  <2>3. Len(p) <= 3
    BY ShortPlans
  <2> HIDE DEF p
  <2> QED BY <2>1, <2>2, <2>3, StartBuilding
<1>6. CASE LookupAddress
  <2> DEFINE key == <<msg.uid>>
             p == IF Found(Address, key)
                  THEN IF msg.address = Absent THEN <<>>
                       ELSE <<Update(Address, {key}, msg.address)>>
                  ELSE <<Insert(Address, {Row(key, msg.address)})>>
  <2>1. Go("facebook", 0, p) /\ msg.api = "update_profile"
    BY <1>6 DEF LookupAddress, BareReturn, Finish, At
  <2>2. Run(p, S) = AddressStore(S) /\ Len(p) <= 1
    BY <1>1, <2>1, AddressBuilds
  <2>3. Planned("facebook", msg, S) = AddressStore(S)
    <3>1. IsStore(S)
      BY StoredIsStore
    <3> HIDE DEF S
    <3> QED BY <1>1, <2>1, <3>1, ProfileEffect
  <2> HIDE DEF p, S
  <2>4. Building("facebook", p, msg, S)
    BY <2>2, <2>3 DEF Building
  <2> QED BY <2>1, <2>4 DEF S
<1>7. CASE LookupFacebook
  <2> DEFINE p == plan \o SocialStatement("facebook", msg.facebook)
  <2>1. Go("twitter", 0, p) /\ msg.api = "update_profile" /\ pc = "facebook"
    BY <1>7 DEF LookupFacebook, BareReturn, Finish, At
  <2>2. Run(plan, S) = Planned("facebook", msg, S) /\ Len(plan) <= 1
    BY <2>1 DEF Building
  <2>3. Run(p, S) = Planned("twitter", msg, S) /\ Len(p) <= 2
    BY <1>1, <2>1, <2>2, SocialBuilds
  <2> HIDE DEF p, S
  <2>4. Building("twitter", p, msg, S)
    BY <2>3 DEF Building
  <2> QED BY <2>1, <2>4 DEF S
<1>8. CASE LookupTwitter
  <2> DEFINE p == plan \o SocialStatement("twitter", msg.twitter)
  <2>1. Go("start", 1, p) /\ msg.api = "update_profile" /\ pc = "twitter"
    BY <1>8 DEF LookupTwitter, BareReturn, Finish, At
  <2>2. Run(plan, S) = Planned("twitter", msg, S) /\ Len(plan) <= 2
    BY <2>1 DEF Building
  <2>3. Run(p, S) = Planned("start", msg, S) /\ Len(p) <= 3
    BY <1>1, <2>1, <2>2, SocialBuilds
  <2> HIDE DEF p, S
  <2>4. Building("start", p, msg, S)
    BY <2>3 DEF Building
  <2> QED BY <2>1, <2>4 DEF S
<1>9. CASE LookupRequest
  <2> DEFINE key == <<msg.from, msg.to>>
             s == IF Found(Request, key) THEN Update(Request, {key}, msg.flag)
                  ELSE Insert(Request, {Row(key, msg.flag)})
  <2>1. /\ msg.api = "cxn_request"
        /\ \/ Go("public", 0, <<s>>) /\ msg.flag = "closed"
           \/ Go("start", 1, <<s>>) /\ msg.flag # "closed"
    BY <1>9 DEF LookupRequest, Finish, At
  <2>2. /\ Run(<<s>>, S) = Planned("public", msg, S)
        /\ msg.flag # "closed" => Run(<<s>>, S) = Planned("start", msg, S)
    BY <2>1, RequestBuilds
  <2> HIDE DEF s, S
  <2>3. /\ msg.flag = "closed" => Building("public", <<s>>, msg, S)
        /\ msg.flag # "closed" => Building("start", <<s>>, msg, S)
    BY <2>2, ShortPlans DEF Building
  <2> QED BY <2>1, <2>3 DEF S
<1>10. CASE LookupPublic
  <2> DEFINE p == plan \o GrantStatements
  <2>1. Go("start", 1, p) /\ msg.api = "cxn_request" /\ pc = "public"
    BY <1>10, PublicStep DEF Finish
  <2>2. Run(plan, S) = Planned("public", msg, S) /\ Len(plan) <= 1 /\ msg.flag = "closed"
    BY <2>1 DEF Building
  <2>3. Run(p, S) = Planned("start", msg, S) /\ Len(p) <= 3
    BY <2>1, <2>2, PublicBuilds
  <2> HIDE DEF p, S
  <2>4. Building("start", p, msg, S)
    BY <2>3 DEF Building
  <2> QED BY <2>1, <2>4 DEF S
<1>11. CASE LookupChannel
  <2> DEFINE key == <<msg.from, msg.to, msg.type>>
             p == <<Insert(Channel, {Row(key, Absent)})>>
  <2>1. Go("start", 1, p) /\ msg.api = "cxn_channel" /\ ~Found(Channel, key)
    BY <1>11 DEF LookupChannel, Finish, At
  <2>2. Run(p, S) = Service!Effect(msg, S)
    BY <2>1, ChannelBuilds
  <2>3. Len(p) <= 3
    BY ShortPlans
  <2> HIDE DEF p
  <2> QED BY <2>1, <2>2, <2>3, StartBuilding
<1>12. CASE LookupLocation
  <2> DEFINE key == <<msg.uid>>
             s == IF Found(Location, key) THEN Update(Location, {key}, msg.place)
                  ELSE Insert(Location, {Row(key, msg.place)})
  <2>1. Go("start", 1, <<s>>) /\ msg.api = "location"
    BY <1>12 DEF LookupLocation, BareReturn, Finish, At
  <2>2. Run(<<s>>, S) = Service!Effect(msg, S)
    BY <2>1, LocationBuilds
  <2> HIDE DEF s
  <2>3. Len(<<s>>) <= 3
    BY ShortPlans
  <2> QED BY <2>1, <2>2, <2>3, StartBuilding
<1> QED
  BY <1>2, <1>3, <1>4, <1>5, <1>6, <1>7, <1>8, <1>9, <1>10, <1>11, <1>12 DEF Lookup

(***************************************************************************)
(* The invariant: every step.                                              *)
(***************************************************************************)
LEMMA GoEffect ==
  ASSUME Resting, EffectInv, db' = db, view' = view,
         NEW point, point \notin {"exec", "commit", "idle", "reply"}, NEW n, NEW p,
         Go(point, n, p), Building(point, p, msg, Stored(view))
  PROVE  EffectInv'
<1>1. pc' = point /\ plan' = p /\ msg' = msg /\ status' = status /\ status = "none"
  BY DEF Go, EffectInv, Resting
<1>2. Building(pc, plan, msg, Stored(view))'
  BY <1>1
<1> QED BY <1>1, <1>2 DEF EffectInv

LEMMA RestEffect ==
  ASSUME pc' \in {"idle", "reply"}, pc' = "idle" => Idle
  PROVE  EffectInv'
BY DEF EffectInv, Resting, Idle

LEMMA LookupEffects ==
  ASSUME Calm, TypeOK, KeptInv, RestInv, EffectInv, Lookup
  PROVE  EffectInv'
<1>1. Resting /\ (Answered \/ NotAnswered)
  BY LookupCommand
<1>2. db' = db /\ view' = view
  BY <1>1, SteadyCommand DEF Resting, Calm, Steady
<1>3. CASE pc' = "reply"
  BY <1>3, RestEffect
<1>4. CASE pc' # "reply"
  <2>1. Building(pc, plan, msg, Stored(view))
    BY <1>1 DEF EffectInv
  <2> QED BY <1>1, <1>2, <1>4, <2>1, LookupBuilds, GoEffect
<1> QED BY <1>3, <1>4

LEMMA StartEffect ==
  ASSUME Calm, TypeOK, RestInv, ReferencesInv, EffectInv, StartTransaction
  PROVE  EffectInv'
<1>1. pc = "start" /\ Resting /\ AtRest
  BY DEF StartTransaction, Resting, AtRest
<1>2. Started
  BY <1>1, CalmCommand DEF StartTransaction, RestInv
<1>3. /\ db' = view /\ view' = view /\ txn'
      /\ plan' = plan /\ msg' = msg /\ status' = status /\ pings' = 0
      /\ pc' = IF plan = <<>> THEN "commit" ELSE "exec"
  BY <1>2 DEF StartTransaction, Started, Go, AfterStatement
<1>4. /\ Run(plan, Stored(view)) = Service!Effect(msg, Stored(view))
      /\ Len(plan) <= 3 /\ status = "none"
  BY <1>1 DEF EffectInv, Building, Planned
<1>5. Service!Permitted(msg, Stored(view))
  BY <1>1 DEF ReferencesInv
<1>6. Service!Permitted(msg, Stored(db))'
  BY <1>3, <1>5
<1>7. (Run(plan, Stored(view)) = Service!Effect(msg, Stored(db)))'
  BY <1>3, <1>4
<1> QED BY <1>3, <1>4, <1>6, <1>7 DEF EffectInv, Resting, AtRest

LEMMA ExecEffect ==
  ASSUME TypeOK, KeptInv, EffectInv, ExecStatement
  PROVE  EffectInv'
<1>1. /\ pc = "exec" /\ Executed(Head(plan)) /\ plan # <<>> /\ PlanOK(plan)
      /\ StatementOK(Head(plan)) /\ TablesOK(view) /\ link \in {"up", "dead"}
  BY PlanShape DEF ExecStatement, TypeOK, HandlerOK, SessionOK
<1>2. ~Lost
  BY <1>1 DEF Executed, Reachable, Lost
<1>3. /\ txn /\ Run(plan, Stored(view)) = Service!Effect(msg, Stored(db))
      /\ Service!Permitted(msg, Stored(db)) /\ Len(plan) <= 3 /\ status = "none"
  BY <1>1, <1>2 DEF EffectInv
<1>4. /\ db' = db /\ view' = Apply(Head(plan), view) /\ txn'
      /\ plan' = Tail(plan) /\ msg' = msg /\ status' = status /\ pings' = 0
      /\ pc' = IF Tail(plan) = <<>> THEN "commit" ELSE "exec"
  BY <1>1, <1>3 DEF ExecStatement, Executed, Go, AfterStatement
<1>5. Stored(Apply(Head(plan), view)) = Do(Head(plan), Stored(view))
  BY <1>1, StoredApply
<1>6. /\ Run(plan, Stored(view)) = Run(Tail(plan), Do(Head(plan), Stored(view)))
      /\ Len(Tail(plan)) < Len(plan)
  BY <1>1, <1>3, RunTail
<1>7. Run(Tail(plan), Stored(Apply(Head(plan), view))) = Service!Effect(msg, Stored(db))
  BY <1>3, <1>5, <1>6
<1>8. (Run(plan, Stored(view)) = Service!Effect(msg, Stored(db)))'
  BY <1>4, <1>7
<1>9. Service!Permitted(msg, Stored(db))'
  BY <1>3, <1>4
<1>10. Len(Tail(plan)) <= 3
  <2> DEFINE X == {plan[i] : i \in DOMAIN plan}
  <2>1. plan \in Seq(X)
    BY <1>1 DEF PlanOK
  <2> HIDE DEF X
  <2>2. Len(plan) \in Nat /\ Len(Tail(plan)) \in Nat
    BY <1>1, <2>1
  <2> QED BY <1>3, <1>6, <2>2
<1> QED BY <1>3, <1>4, <1>8, <1>9, <1>10 DEF EffectInv, Resting, AtRest

LEMMA DisconnectEffect ==
  ASSUME Calm, KeptInv, RestInv, EffectInv, Disconnect
  PROVE  EffectInv'
<1>1. /\ UNCHANGED <<msg, pc, pings, plan, body, status>> /\ db' = db
      /\ LoseConnection /\ link = "up"
  BY DEF Disconnect, LoseConnection, handlerVars
<1>2. AtRest => view' = view
  BY <1>1, SteadyCommand DEF Calm, Steady
<1>3. ~Lost /\ (txn => Lost')
  BY <1>1 DEF Lost, LoseConnection, KeptInv, SessionInv
<1>4. Resting => Building(pc, plan, msg, Stored(view))'
  <2>1. Resting => Building(pc, plan, msg, Stored(view)) /\ view' = view
    BY <1>2 DEF EffectInv, Resting
  <2> QED BY <1>1, <2>1
<1>5. Service!Permitted(msg, Stored(db))' <=> Service!Permitted(msg, Stored(db))
  BY <1>1
<1>6. (Resting' <=> Resting) /\ pc' = pc
  BY <1>1 DEF Resting, AtRest
<1> QED BY <1>1, <1>3, <1>4, <1>5, <1>6 DEF EffectInv

LEMMA SameEffect ==
  ASSUME EffectInv, UNCHANGED <<db, view, msg, pc, plan, status>>,
         pc = "commit" => pings' = pings,
         pc \in {"exec", "commit"} => txn' = txn /\ (Lost' <=> Lost)
  PROVE  EffectInv'
<1>1. Building(pc, plan, msg, Stored(view))' <=> Building(pc, plan, msg, Stored(view))
  OBVIOUS
<1>2. Service!Permitted(msg, Stored(db))' <=> Service!Permitted(msg, Stored(db))
  OBVIOUS
<1>3. (Run(plan, Stored(view)) = Service!Effect(msg, Stored(db)))'
        <=> (Run(plan, Stored(view)) = Service!Effect(msg, Stored(db)))
  OBVIOUS
<1>4. Resting' <=> Resting
  BY DEF Resting, AtRest
<1> QED BY <1>1, <1>2, <1>3, <1>4 DEF EffectInv

LEMMA EffectKept ==
  ASSUME Calm, TypeOK, KeptInv, RestInv, ReferencesInv, EffectInv, [Next]_vars
  PROVE  EffectInv'
<1>1. ASSUME NEW m \in Messages, Receive(m) PROVE EffectInv'
  <2>1. CASE pc' = "reply"
    BY <2>1, RestEffect
  <2>2. CASE pc' # "reply"
    <3>1. pc' = "check" /\ plan' = <<>> /\ status' = "none"
      BY <1>1, <2>2 DEF Receive
    <3>2. Building(pc', plan', msg', Stored(view'))
      BY <3>1, NothingBuilding
    <3>3. Building(pc, plan, msg, Stored(view))'
      BY <3>2
    <3> QED BY <3>1, <3>3 DEF EffectInv
  <2> QED BY <2>1, <2>2
<1>2. CASE Ping
  <2>1. /\ UNCHANGED <<msg, pc, plan, body, status>> /\ (Answered \/ NotAnswered)
        /\ pc \notin {"exec", "commit"}
    BY <1>2 DEF Ping, KeptInv, PlanInv, EffectInv
  <2>2. CASE AtRest
    BY <2>1, <2>2, SteadyCommand, SameEffect DEF Calm, Steady
  <2>3. CASE ~AtRest
    BY <2>1, <2>3 DEF EffectInv, AtRest, Resting
  <2> QED BY <2>2, <2>3
<1>3. CASE RequestWithoutFlag \/ Reply \/ Restart
  BY <1>3, RestEffect DEF RequestWithoutFlag, Reply, Restart, Idle
<1>4. CASE FailStatement
  <2>1. pc' = "reply" \/ (pc' = "rollback" /\ status' = status /\ pc = "exec")
    BY <1>4 DEF FailStatement, Go, BareReturn, Finish
  <2> QED BY <2>1 DEF EffectInv, AtRest, Resting
<1>5. CASE Commit \/ Rollback
  BY <1>5, RestEffect DEF Commit, Rollback, Finish
<1>6. CASE UNCHANGED vars
  BY <1>6, SameEffect DEF vars, sessionVars, handlerVars, Lost
<1> QED
  BY <1>1, <1>2, <1>3, <1>4, <1>5, <1>6, LookupEffects, StartEffect, ExecEffect,
     DisconnectEffect DEF Next

LEMMA EffectInit == Init => EffectInv
BY DEF Init, EffectInv, Resting

\* Whatever a handler has looked up and whatever of its statements the server
\* has executed, what is left of its plan makes the whole effect of the
\* request, and only that, of the tables its transaction sees.
THEOREM PlansHaveTheEffect ==
  ASSUME Calm
  PROVE  Spec => []EffectInv
<1>1. Init => RestInv /\ ReferencesInv /\ EffectInv
  BY RestInvInit, ReferencesInit, EffectInit
<1>2. /\ TypeOK /\ KeptInv /\ KeptInv' /\ [Next]_vars
      /\ RestInv /\ ReferencesInv /\ EffectInv
      => (RestInv /\ ReferencesInv /\ EffectInv)'
  BY RestInvKept, ReferencesKept, EffectKept
<1> QED BY <1>1, <1>2, TypeCorrect, KeptInvariant, PTL DEF Spec

(***************************************************************************)
(* The handlers implement the atomic service.                              *)
(***************************************************************************)
Phase ==
  CASE pc = "idle" -> "idle"
    [] pc = "reply" -> "answered"
    [] OTHER -> "working"

\* the steps of the service, in terms of the handlers
LEMMA ServiceSteps ==
  /\ \A m \in Messages :
       /\ pc = "idle" /\ pc' \notin {"idle", "reply"} /\ msg' = m
            /\ db' = db /\ status' = status => Service!ServiceNext
       /\ pc = "idle" /\ pc' = "reply" /\ msg' = m /\ db' = db /\ status' = "404"
            => Service!ServiceNext
  /\ /\ pc \notin {"idle", "reply"} /\ pc' = "reply" /\ msg' = msg
     /\ Service!Permitted(msg, Stored(db)) /\ status' = "200"
     /\ Stored(db') = Stored(db) \/ Stored(db') = Service!Effect(msg, Stored(db))
     => Service!ServiceNext
  /\ /\ pc \notin {"idle", "reply"} /\ pc' = "reply" /\ msg' = msg /\ db' = db
     /\ status' = "404"
     => Service!ServiceNext
  /\ pc # "idle" /\ pc' = "idle" /\ msg' = Absent /\ status' = "none" /\ db' = db
     => Service!ServiceNext
<1>1. /\ Phase \in {"idle", "working", "answered"}
      /\ Phase = "idle" <=> pc = "idle"
      /\ Phase = "answered" <=> pc = "reply"
      /\ Phase = "working" <=> pc \notin {"idle", "reply"}
  BY DEF Phase
<1>2. /\ Phase' \in {"idle", "working", "answered"}
      /\ Phase' = "idle" <=> pc' = "idle"
      /\ Phase' = "answered" <=> pc' = "reply"
      /\ Phase' = "working" <=> pc' \notin {"idle", "reply"}
  BY DEF Phase
<1>3. db' = db => Stored(db)' = Stored(db)
  OBVIOUS
<1>4. \A m : Service!Accept(m) <=>
        /\ Phase = "idle" /\ Phase' = "working" /\ msg' = m
        /\ Stored(db)' = Stored(db) /\ status' = status
  BY DEF Service!Accept, Phase
<1>5. \A m : Service!RefuseAtOnce(m) <=>
        /\ Phase = "idle" /\ Phase' = "answered" /\ msg' = m /\ status' = "404"
        /\ Stored(db)' = Stored(db)
  BY DEF Service!RefuseAtOnce, Phase
<1>6. Service!Grant <=>
        /\ Phase = "working" /\ Service!Permitted(msg, Stored(db))
        /\ Stored(db)' \in {Stored(db), Service!Effect(msg, Stored(db))}
        /\ Phase' = "answered" /\ status' = "200" /\ msg' = msg
  BY DEF Service!Grant, Phase
<1>7. Service!Refuse <=>
        /\ Phase = "working" /\ Phase' = "answered" /\ status' = "404"
        /\ Stored(db)' = Stored(db) /\ msg' = msg
  BY DEF Service!Refuse, Phase
<1>8. Service!End <=>
        /\ Phase \in {"working", "answered"} /\ Phase' = "idle" /\ msg' = Absent
        /\ status' = "none" /\ Stored(db)' = Stored(db)
  BY DEF Service!End, Phase
<1> HIDE DEF Phase
<1>9. Stored(db)' = Stored(db')
  OBVIOUS
<1> QED
  BY <1>1, <1>2, <1>3, <1>4, <1>5, <1>6, <1>7, <1>8, <1>9 DEF Service!ServiceNext

\* a step the service does not see
LEMMA ServiceStutters ==
  ASSUME db' = db, msg' = msg, status' = status,
         \/ pc' = pc
         \/ pc \notin {"idle", "reply"} /\ pc' \notin {"idle", "reply"}
  PROVE  UNCHANGED Service!serviceVars
<1>1. Phase' = Phase
  BY DEF Phase
<1>2. Stored(db)' = Stored(db)
  OBVIOUS
<1> QED BY <1>1, <1>2 DEF Service!serviceVars, Phase

\* no answer of the server is lost on its way, and it refuses nothing
Faithful == "reject" \notin Faults /\ ~({"drop", "outage"} \subseteq Faults)

ServiceInv == RestInv /\ ReferencesInv /\ EffectInv

LEMMA RestingView ==
  ASSUME Faithful, KeptInv, ServiceInv, AtRest
  PROVE  view = db
BY DEF Faithful, KeptInv, SessionInv, ServiceInv, RestInv, NoTransactionAtRest, AtRest

LEMMA LookupServes ==
  ASSUME Faithful, Calm, TypeOK, KeptInv, ServiceInv, Lookup
  PROVE  [Service!ServiceNext]_(Service!serviceVars)
<1>1. Resting /\ db' = db /\ view = db
  BY LookupCommand, RestingView DEF Answered, NotAnswered, LoseConnection, Resting
<1>2. pc \notin {"idle", "reply"} /\ pc # "commit"
  BY <1>1 DEF Resting, AtRest
<1>3. \/ \E point, n, p : point \notin {"idle", "reply"} /\ Go(point, n, p)
      \/ Finish("404", "404") \/ BareReturn
      \/ LookupChannel /\ Finish("200", "200")
  BY DEF Lookup, CheckRegistration, CheckAvatar, CheckProfile, CheckBothUids,
         CheckPreference, CheckLocation, LookupAddress, LookupFacebook,
         LookupTwitter, LookupRequest, LookupPublic, LookupChannel, LookupLocation
<1>4. ASSUME NEW point, NEW n, NEW p, point \notin {"idle", "reply"}, Go(point, n, p)
      PROVE  UNCHANGED Service!serviceVars
  BY <1>1, <1>2, <1>4, ServiceStutters DEF Go
<1>5. CASE Finish("404", "404") \/ BareReturn
  BY <1>1, <1>2, <1>5, ServiceSteps DEF Finish, BareReturn
<1>6. CASE LookupChannel /\ Finish("200", "200")
  <2>1. pc = "existing"
    BY <1>6 DEF LookupChannel, At
  <2>2. Service!Permitted(msg, Stored(view))
    BY <1>1, <2>1 DEF ServiceInv, ReferencesInv
  <2>3. pc' = "reply" /\ status' = "200" /\ msg' = msg
    BY <1>6 DEF Finish
  <2>4. Service!Permitted(msg, Stored(db)) /\ Stored(db') = Stored(db)
    BY <1>1, <2>2
  <2> QED BY <1>2, <2>3, <2>4, ServiceSteps
<1> QED BY <1>3, <1>4, <1>5, <1>6

LEMMA StatementServes ==
  ASSUME Faithful, TypeOK, KeptInv, ServiceInv, ExecStatement \/ FailStatement
  PROVE  [Service!ServiceNext]_(Service!serviceVars)
<1>1. pc = "exec"
  BY DEF ExecStatement, FailStatement
<1>2. CASE ExecStatement
  <2>1. ~Lost
    BY <1>2 DEF ExecStatement, Executed, Reachable, Lost, TypeOK, SessionOK
  <2>2. db' = db
    BY <1>1, <1>2, <2>1 DEF ExecStatement, Executed, ServiceInv, EffectInv
  <2>3. pc' \in {"exec", "commit"} /\ msg' = msg /\ status' = status
    BY <1>2 DEF ExecStatement, Go, AfterStatement
  <2> QED BY <1>1, <2>2, <2>3, ServiceStutters
<1>3. CASE FailStatement
  <2>1. ~Refused(Head(plan)) /\ ~ExecutedUnheard(Head(plan))
    BY <1>1, KeyStillFree
       DEF Faithful, Refused, ExecutedUnheard, CheckedKeyIsFree
  <2>2. db' = db
    BY <1>3, <2>1 DEF FailStatement, NotAnswered, LoseConnection
  <2>3. CASE pc' = "rollback"
    BY <1>1, <1>3, <2>2, <2>3, ServiceStutters
       DEF FailStatement, Go, BareReturn, Finish
  <2>4. CASE pc' # "rollback"
    BY <1>1, <1>3, <2>2, <2>4, ServiceSteps DEF FailStatement, Go, BareReturn, Finish
  <2> QED BY <2>3, <2>4
<1> QED BY <1>2, <1>3

LEMMA CommitServes ==
  ASSUME Faithful, TypeOK, KeptInv, ServiceInv, Commit
  PROVE  Service!ServiceNext
<1>1. /\ pc = "commit" /\ plan = <<>> /\ Service!Permitted(msg, Stored(db))
      /\ pc' = "reply" /\ msg' = msg /\ status' = "200"
  BY DEF Commit, Finish, ServiceInv, EffectInv
<1>2. Committed \/ NotAnswered
  BY DEF Commit, CommittedUnheard, Faithful
<1>3. CASE Committed
  <2>1. ~Lost /\ db' = view
    BY <1>3 DEF Committed, Reachable, Lost, TypeOK, SessionOK
  <2>2. Run(plan, Stored(view)) = Service!Effect(msg, Stored(db))
    BY <1>1, <2>1 DEF ServiceInv, EffectInv
  <2>3. Stored(db') = Service!Effect(msg, Stored(db))
    BY <1>1, <2>1, <2>2, RunLiterals
  <2> QED BY <1>1, <2>3, ServiceSteps
<1>4. CASE NotAnswered
  <2>1. Stored(db') = Stored(db)
    BY <1>4 DEF NotAnswered, LoseConnection
  <2> QED BY <1>1, <2>1, ServiceSteps
<1> QED BY <1>2, <1>3, <1>4

LEMMA HandlersServe ==
  ASSUME Faithful, Calm, TypeOK, KeptInv, ServiceInv, [Next]_vars
  PROVE  [Service!ServiceNext]_(Service!serviceVars)
<1>1. ASSUME NEW m \in Messages, Receive(m) PROVE Service!ServiceNext
  <2>1. pc = "idle" /\ msg' = m /\ db' = db /\ status = "none"
    BY <1>1 DEF Receive, sessionVars, ServiceInv, EffectInv
  <2>2. \/ pc' = "reply" /\ status' = "404"
        \/ pc' = "check" /\ status' = "none"
    BY <1>1 DEF Receive
  <2> QED BY <2>1, <2>2, ServiceSteps
<1>2. CASE Ping \/ Disconnect \/ UNCHANGED vars
  <2>1. db' = db /\ msg' = msg /\ pc' = pc /\ status' = status
    BY <1>2 DEF Ping, Disconnect, Answered, NotAnswered, LoseConnection, vars,
                sessionVars, handlerVars
  <2> QED BY <2>1, ServiceStutters
<1>3. CASE StartTransaction
  <2>1. pc = "start" /\ view = db
    BY <1>3, RestingView DEF StartTransaction, AtRest
  <2>2. db' = db
    BY <1>3, <2>1 DEF StartTransaction, Started, NotAnswered, LoseConnection
  <2>3. pc' \in {"exec", "commit"} /\ msg' = msg /\ status' = status
    BY <1>3 DEF StartTransaction, Go, AfterStatement
  <2> QED BY <2>1, <2>2, <2>3, ServiceStutters
<1>4. CASE Rollback
  BY <1>4, ServiceSteps
     DEF Rollback, RolledBack, NotAnswered, LoseConnection, Finish
<1>5. CASE RequestWithoutFlag \/ Reply
  BY <1>5, ServiceSteps
     DEF RequestWithoutFlag, Reply, At, Idle, NewSession, sessionVars
<1>6. CASE Restart
  <2>1. db' = db /\ pc' = "idle" /\ msg' = Absent /\ status' = "none"
    BY <1>6 DEF Restart, NewSession, Idle
  <2>2. CASE pc = "idle"
    BY <2>1, <2>2, ServiceStutters DEF ServiceInv, EffectInv
  <2>3. CASE pc # "idle"
    BY <2>1, <2>3, ServiceSteps
  <2> QED BY <2>2, <2>3
<1> QED
  BY <1>1, <1>2, <1>3, <1>4, <1>5, <1>6, LookupServes, StatementServes, CommitServes
     DEF Next

LEMMA ServiceInitial == Init => Service!ServiceInit
<1> SUFFICES ASSUME Init PROVE Service!ServiceInit
  OBVIOUS
<1>1. Stored(db) = [T \in TableNames |-> {}]
  BY DEF Init, SessionInit, Stored, NoRows
<1>2. Service!Tables = TableNames
  BY TableDefs DEF Service!Tables
<1>3. Phase = "idle"
  BY DEF Init, Phase
<1> QED BY <1>1, <1>2, <1>3 DEF Service!ServiceInit, Init, Phase

LEMMA FaithfulIsCalm == Faithful => Calm
BY DEF Faithful, Calm

LEMMA ServiceInvHolds == ASSUME Calm PROVE Spec => []ServiceInv
<1>1. Init => ServiceInv
  BY RestInvInit, ReferencesInit, EffectInit DEF ServiceInv
<1>2. TypeOK /\ KeptInv /\ KeptInv' /\ ServiceInv /\ [Next]_vars => ServiceInv'
  BY RestInvKept, ReferencesKept, EffectKept DEF ServiceInv
<1> QED BY <1>1, <1>2, TypeCorrect, KeptInvariant, PTL DEF Spec

\* The seven update APIs implement the atomic service of AtomicUpdates: a
\* request is refused and changes nothing, or is granted and changes the
\* committed tables by its whole effect in one step (or, if the commit is
\* lost, not at all).  The server must refuse no statement that breaks no
\* constraint, and must not keep a commit whose answer is lost.
THEOREM HandlersImplementService ==
  ASSUME Faithful
  PROVE  Spec => ImplementsService
<1>1. Init => Service!ServiceInit
  BY ServiceInitial
<1>2. TypeOK /\ KeptInv /\ ServiceInv /\ [Next]_vars
        => [Service!ServiceNext]_(Service!serviceVars)
  BY HandlersServe, FaithfulIsCalm
<1>3. Spec => []ServiceInv
  BY ServiceInvHolds, FaithfulIsCalm
<1> QED
  BY <1>1, <1>2, <1>3, TypeCorrect, KeptInvariant, PTL
     DEF Spec, ImplementsService, Service!ServiceSpec

(***************************************************************************)
(* A request performed twice has the effect of one performed once.         *)
(***************************************************************************)
Relation(rel) == \A q \in rel : q = <<q[1], q[2]>>

LEMMA TwoTables ==
  ASSUME NEW S, IsStore(S), NEW A \in TableNames, NEW B \in TableNames, A # B,
         NEW a, NEW b, Relation(a), Relation(b),
         NEW R, R = Become(Become(S, A, a), B, b)
  PROVE  /\ IsStore(R) /\ R[A] = a /\ R[B] = b
         /\ \A U \in TableNames : U # A /\ U # B => R[U] = S[U]
         /\ Become(Become(R, A, a), B, b) = R
<1> DEFINE Q == Become(S, A, a)
<1>1. /\ IsStore(Q) /\ Q[A] = a
      /\ \A U \in TableNames : U # A => Q[U] = S[U]
  BY BecomeIsStore DEF Relation
<1>2. R = Become(Q, B, b)
  OBVIOUS
<1> HIDE DEF Q
<1>3. /\ IsStore(R) /\ R[B] = b
      /\ \A U \in TableNames : U # B => R[U] = Q[U]
  BY <1>1, <1>2, BecomeIsStore DEF Relation
<1>4. R[A] = a
  BY <1>1, <1>3
<1>5. Become(R, A, a) = R /\ Become(R, B, b) = R
  BY <1>3, <1>4, BecomeSame
<1> QED BY <1>1, <1>3, <1>4, <1>5

LEMMA PutTwice ==
  ASSUME NEW rel, Relation(rel), NEW k, NEW v
  PROVE  /\ Relation(Service!Put(rel, k, v))
         /\ Service!Holds(Service!Put(rel, k, v), k)
         /\ Service!Put(Service!Put(rel, k, v), k, v) = Service!Put(rel, k, v)
<1>1. <<k, v>>[1] = k /\ <<k, v>>[2] = v
  OBVIOUS
<1> DEFINE new == <<k, v>>
           other == {q \in rel : q[1] # k}
<1>2. Service!Put(rel, k, v) = other \cup {new}
  BY DEF Service!Put
<1>3. Service!Put(other \cup {new}, k, v) = {q \in other \cup {new} : q[1] # k} \cup {new}
  BY DEF Service!Put
<1>4. new[1] = k /\ new = <<new[1], new[2]>> /\ \A q \in other : q \in rel /\ q[1] # k
  OBVIOUS
<1> HIDE DEF new, other
<1>5. {q \in other \cup {new} : q[1] # k} = other
  BY <1>4
<1> QED BY <1>2, <1>3, <1>4, <1>5 DEF Relation, Service!Holds

\* two handles of a user do not touch each other
LEMMA HandleOnce ==
  ASSUME NEW r, NEW u, NEW n, NEW h
  PROVE  Service!PutHandle(r, u, n, h) =
           {q \in r : h # Absent => q[1] # <<u, n>>}
             \cup {q \in {<<<<u, n>>, h>>} : h \notin {Absent, ""}}
<1> DEFINE k == <<u, n>>
<1>1. CASE h = Absent
  <2>1. Service!PutHandle(r, u, n, h) = r
    BY <1>1, MessagesAssumption DEF Service!PutHandle
  <2>2. {q \in {<<k, h>>} : h \notin {Absent, ""}} = {}
    BY <1>1
  <2>3. {q \in r : h # Absent => q[1] # k} = r
    BY <1>1
  <2> QED BY <2>1, <2>2, <2>3
<1>2. CASE h = "" /\ h # Absent
  <2>1. Service!PutHandle(r, u, n, h) = {q \in r : q[1] \notin {k}}
    BY <1>2 DEF Service!PutHandle, Service!Remove
  <2>2. {q \in {<<k, h>>} : h \notin {Absent, ""}} = {}
    BY <1>2
  <2>3. {q \in r : h # Absent => q[1] # k} = {q \in r : q[1] \notin {k}}
    BY <1>2
  <2> QED BY <2>1, <2>2, <2>3
<1>3. CASE h \notin {Absent, ""}
  <2>1. Service!PutHandle(r, u, n, h) = Service!Put(r, k, h)
    BY <1>3 DEF Service!PutHandle
  <2> HIDE DEF k
  <2>2. Service!Put(r, k, h) = {q \in r : q[1] # k} \cup {<<k, h>>}
    BY DEF Service!Put
  <2>3. {q \in r : h # Absent => q[1] # k} = {q \in r : q[1] # k}
    BY <1>3
  <2>4. {q \in {<<k, h>>} : h \notin {Absent, ""}} = {<<k, h>>}
    BY <1>3
  <2>5. Service!PutHandle(r, u, n, h) =
          {q \in r : h # Absent => q[1] # k} \cup {q \in {<<k, h>>} : h \notin {Absent, ""}}
    BY <2>1, <2>2, <2>3, <2>4
  <2> QED BY <2>5 DEF k
<1> QED BY <1>1, <1>2, <1>3

LEMMA HandlesTwice ==
  ASSUME NEW rel, Relation(rel), NEW u, NEW f, NEW t
  PROVE  LET once == Service!PutHandle(Service!PutHandle(rel, u, "facebook", f),
                                       u, "twitter", t)
         IN  /\ Relation(once)
             /\ Service!PutHandle(Service!PutHandle(once, u, "facebook", f),
                                  u, "twitter", t) = once
<1> DEFINE fk == <<u, "facebook">>
           tk == <<u, "twitter">>
           fn == {q \in {<<fk, f>>} : f \notin {Absent, ""}}
           tn == {q \in {<<tk, t>>} : t \notin {Absent, ""}}
           put(r) == {q \in ({q \in r : f # Absent => q[1] # fk} \cup fn) :
                        t # Absent => q[1] # tk} \cup tn
<1>1. \A r : Service!PutHandle(Service!PutHandle(r, u, "facebook", f), u, "twitter", t)
        = put(r)
  BY HandleOnce
<1>2. fk # tk
  OBVIOUS
<1>3. /\ \A q \in fn : q[1] = fk /\ q = <<q[1], q[2]>> /\ f # Absent
      /\ \A q \in tn : q[1] = tk /\ q = <<q[1], q[2]>> /\ t # Absent
  <2>1. \A a, b : <<a, b>> = <<<<a, b>>[1], <<a, b>>[2]>> /\ <<a, b>>[1] = a
    OBVIOUS
  <2>2. \A q \in fn : q = <<fk, f>> /\ f # Absent
    OBVIOUS
  <2>3. \A q \in tn : q = <<tk, t>> /\ t # Absent
    OBVIOUS
  <2> HIDE DEF fk, tk, fn, tn
  <2> QED BY <2>1, <2>2, <2>3
<1> HIDE DEF fk, tk, fn, tn
<1>4. Relation(put(rel))
  BY <1>3 DEF Relation
<1>5. put(put(rel)) = put(rel)
  BY <1>2, <1>3
<1> HIDE DEF put
<1> QED BY <1>1, <1>4, <1>5

LEMMA RemoveThenPut ==
  ASSUME NEW rel, Relation(rel), NEW keys, NEW new, Relation(new),
         \A q \in new : q[1] \in keys
  PROVE  /\ Relation(Service!Remove(rel, keys) \cup new)
         /\ Service!Remove(Service!Remove(rel, keys) \cup new, keys) \cup new
              = Service!Remove(rel, keys) \cup new
BY DEF Relation, Service!Remove

LEMMA EffectTwice ==
  ASSUME NEW m \in Messages, NEW S, IsStore(S)
  PROVE  Service!Effect(m, Service!Effect(m, S)) = Service!Effect(m, S)
<1>0. \A T \in TableNames : Relation(S[T])
  BY DEF IsStore, Relation
<1> DEFINE R == Service!Effect(m, S)
<1>1. CASE m.api = "registration"
  <2> DEFINE k == <<m.uid, m.email>>
             p == <<m.uid>>
             user(rel) == IF Service!Holds(rel, k) THEN rel
                          ELSE Service!Put(rel, k, Absent)
             phone(rel) == Service!Put(rel, p, Absent)
  <2>1. \A Q : IsStore(Q) => Service!Effect(m, Q) =
          Become(Become(Q, RegInfo, user(Q[RegInfo])), Phone, phone(Q[Phone]))
    BY <1>1, EffectShape
  <2> HIDE DEF k, p
  <2>2. /\ Relation(user(S[RegInfo])) /\ user(user(S[RegInfo])) = user(S[RegInfo])
        /\ Relation(phone(S[Phone])) /\ phone(phone(S[Phone])) = phone(S[Phone])
    BY <1>0, TablesAreNames, PutTwice
  <2> HIDE DEF user, phone
  <2>3. R = Become(Become(S, RegInfo, user(S[RegInfo])), Phone, phone(S[Phone]))
    BY <2>1
  <2> HIDE DEF R
  <2>4. /\ IsStore(R) /\ R[RegInfo] = user(S[RegInfo]) /\ R[Phone] = phone(S[Phone])
        /\ Become(Become(R, RegInfo, user(S[RegInfo])), Phone, phone(S[Phone])) = R
    BY <2>2, <2>3, TablesAreNames, KeptNames, TwoTables
  <2>5. Service!Effect(m, R) = R
    BY <2>1, <2>2, <2>4
  <2> QED BY <2>5 DEF R
<1>2. CASE m.api = "update_avatar"
  <2> DEFINE mark(rel) == {<<p[1], IF p[1][1] = m.uid THEN m.url ELSE p[2]>> : p \in rel}
  <2>1. \A Q : IsStore(Q) => Service!Effect(m, Q) = Become(Q, RegInfo, mark(Q[RegInfo]))
    BY <1>2, EffectShape
  <2>2. Relation(mark(S[RegInfo])) /\ mark(mark(S[RegInfo])) = mark(S[RegInfo])
    <3> DEFINE b(p) == <<p[1], IF p[1][1] = m.uid THEN m.url ELSE p[2]>>
    <3>1. \A p : b(p) = <<b(p)[1], b(p)[2]>> /\ b(b(p)) = b(p)
      OBVIOUS
    <3>2. \A rel : mark(rel) = {b(p) : p \in rel}
      OBVIOUS
    <3> HIDE DEF b, mark
    <3>3. \A q \in mark(S[RegInfo]) : b(q) = q /\ q = <<q[1], q[2]>>
      BY <3>1, <3>2
    <3> DEFINE M == mark(S[RegInfo])
    <3>4. mark(M) = {b(q) : q \in M}
      BY <3>2
    <3> HIDE DEF M
    <3>5. {b(q) : q \in M} = M
      BY <3>3 DEF M
    <3> QED BY <3>3, <3>4, <3>5 DEF Relation, M
  <2> HIDE DEF mark
  <2>3. R = Become(S, RegInfo, mark(S[RegInfo]))
    BY <2>1
  <2> HIDE DEF R
  <2>4. /\ IsStore(R) /\ R[RegInfo] = mark(S[RegInfo])
        /\ Become(R, RegInfo, mark(S[RegInfo])) = R
    <3>1. IsStore(R) /\ R[RegInfo] = mark(S[RegInfo])
      BY <2>2, <2>3, TablesAreNames, BecomeIsStore DEF Relation
    <3>2. Become(R, RegInfo, R[RegInfo]) = R
      BY <3>1, TablesAreNames, BecomeSame
    <3> QED BY <3>1, <3>2
  <2>5. Service!Effect(m, R) = R
    BY <2>1, <2>2, <2>4
  <2> QED BY <2>5 DEF R
<1>3. CASE m.api = "update_profile"
  <2> DEFINE k == <<m.uid>>
             home(rel) == IF m.address = Absent /\ Service!Holds(rel, k) THEN rel
                          ELSE Service!Put(rel, k, m.address)
             social(rel) ==
               Service!PutHandle(Service!PutHandle(rel, m.uid, "facebook", m.facebook),
                                 m.uid, "twitter", m.twitter)
  <2>1. \A Q : IsStore(Q) => Service!Effect(m, Q) =
          Become(Become(Q, Address, home(Q[Address])), Social, social(Q[Social]))
    BY <1>3, EffectShape
  <2> HIDE DEF k
  <2>2. /\ Relation(home(S[Address])) /\ home(home(S[Address])) = home(S[Address])
        /\ Relation(social(S[Social])) /\ social(social(S[Social])) = social(S[Social])
    BY <1>0, TablesAreNames, PutTwice, HandlesTwice
  <2> HIDE DEF home, social
  <2>3. R = Become(Become(S, Address, home(S[Address])), Social, social(S[Social]))
    BY <2>1
  <2>4. Address # Social
    BY TableTexts
  <2> HIDE DEF R
  <2>5. /\ IsStore(R) /\ R[Address] = home(S[Address]) /\ R[Social] = social(S[Social])
        /\ Become(Become(R, Address, home(S[Address])), Social, social(S[Social])) = R
    BY <2>2, <2>3, <2>4, TablesAreNames, TwoTables
  <2>6. Service!Effect(m, R) = R
    BY <2>1, <2>2, <2>5
  <2> QED BY <2>6 DEF R
<1>4. CASE m.api = "cxn_request"
  <2> DEFINE k == <<m.from, m.to>>
             put(rel) == Service!Put(rel, k, m.flag)
             open(rel, new) == IF m.flag # "closed" THEN rel
                               ELSE {p \in rel : <<p[1][1], p[1][2]>> # k} \cup new
             G == Service!Granted(m, S)
  <2>1. \A Q : IsStore(Q) => Service!Effect(m, Q) =
          Become(Become(Q, Request, put(Q[Request])), Channel,
                 open(Q[Channel], Service!Granted(m, Q)))
    BY <1>4, EffectShape
  <2>2. \A q \in G : /\ q = <<q[1], q[2]>> /\ <<q[1][1], q[1][2]>> = k
    BY DEF Service!Granted
  <2> HIDE DEF k, G
  <2>3. Relation(put(S[Request])) /\ put(put(S[Request])) = put(S[Request])
    BY <1>0, TablesAreNames, PutTwice
  <2>4. Relation(S[Channel])
    BY <1>0, TablesAreNames
  <2>5. /\ Relation(open(S[Channel], G))
        /\ open(open(S[Channel], G), G) = open(S[Channel], G)
    BY <2>2, <2>4 DEF Relation
  <2> HIDE DEF put, open
  <2>6. R = Become(Become(S, Request, put(S[Request])), Channel, open(S[Channel], G))
    BY <2>1 DEF G
  <2>7. Request # Channel /\ Preference # Request /\ Preference # Channel
    BY TableTexts
  <2> HIDE DEF R
  <2>8. /\ IsStore(R) /\ R[Request] = put(S[Request]) /\ R[Channel] = open(S[Channel], G)
        /\ Become(Become(R, Request, put(S[Request])), Channel, open(S[Channel], G)) = R
        /\ R[Preference] = S[Preference]
    BY <2>3, <2>5, <2>6, <2>7, TablesAreNames, TwoTables
  <2>9. Service!Granted(m, R) = G
    BY <2>8, TableTexts DEF G, Service!Granted, Service!Exposed
  <2>10. Service!Effect(m, R) = R
    BY <2>1, <2>3, <2>5, <2>8, <2>9
  <2> QED BY <2>10 DEF R
<1>5. CASE m.api = "cxn_channel"
  <2> DEFINE k == <<m.from, m.to, m.type>>
             put(rel) == Service!Put(rel, k, Absent)
  <2>1. \A Q : IsStore(Q) => Service!Effect(m, Q) = Become(Q, Channel, put(Q[Channel]))
    BY <1>5, EffectShape
  <2> HIDE DEF k
  <2>2. Relation(put(S[Channel])) /\ put(put(S[Channel])) = put(S[Channel])
    BY <1>0, TablesAreNames, PutTwice
  <2> HIDE DEF put
  <2>3. R = Become(S, Channel, put(S[Channel]))
    BY <2>1
  <2> HIDE DEF R
  <2>4. /\ IsStore(R) /\ R[Channel] = put(S[Channel])
        /\ Become(R, Channel, put(S[Channel])) = R
    <3>1. IsStore(R) /\ R[Channel] = put(S[Channel])
      BY <2>2, <2>3, TablesAreNames, BecomeIsStore DEF Relation
    <3>2. Become(R, Channel, R[Channel]) = R
      BY <3>1, TablesAreNames, BecomeSame
    <3> QED BY <3>1, <3>2
  <2>5. Service!Effect(m, R) = R
    BY <2>1, <2>2, <2>4
  <2> QED BY <2>5 DEF R
<1>6. CASE m.api = "cxn_preference"
  <2> DEFINE keys == {<<m.uid, m.list[i].channel>> : i \in DOMAIN m.list}
             new == {<<<<m.uid, m.list[i].channel>>, m.list[i].flag>> :
                       i \in DOMAIN m.list}
             put(rel) == Service!Remove(rel, keys) \cup new
  <2>1. \A Q : IsStore(Q) =>
          Service!Effect(m, Q) = Become(Q, Preference, put(Q[Preference]))
    <3> SUFFICES ASSUME NEW Q, IsStore(Q)
          PROVE  Service!Effect(m, Q) = Become(Q, Preference, put(Q[Preference]))
      OBVIOUS
    <3>1. Service!Effect(m, Q) =
            Become(Q, Preference,
              Service!Remove(Q[Preference],
                             {<<m.uid, m.list[i].channel>> : i \in DOMAIN m.list})
              \cup {<<<<m.uid, m.list[i].channel>>, m.list[i].flag>> :
                      i \in DOMAIN m.list})
      BY <1>6 DEF Service!Effect, Become, Preference
    <3> QED BY <3>1
  <2>2. Relation(new) /\ \A q \in new : q[1] \in keys
    BY DEF Relation
  <2> HIDE DEF keys, new
  <2>3. /\ Relation(put(S[Preference]))
        /\ put(put(S[Preference])) = put(S[Preference])
    <3>1. Relation(S[Preference])
      BY <1>0, TablesAreNames
    <3> QED BY <2>2, <3>1, RemoveThenPut
  <2> HIDE DEF put
  <2>4. R = Become(S, Preference, put(S[Preference]))
    BY <2>1
  <2> HIDE DEF R
  <2>5. /\ IsStore(R) /\ R[Preference] = put(S[Preference])
        /\ Become(R, Preference, put(S[Preference])) = R
    <3>1. IsStore(R) /\ R[Preference] = put(S[Preference])
      BY <2>3, <2>4, TablesAreNames, BecomeIsStore DEF Relation
    <3>2. Become(R, Preference, R[Preference]) = R
      BY <3>1, TablesAreNames, BecomeSame
    <3> QED BY <3>1, <3>2
  <2>6. Service!Effect(m, R) = R
    BY <2>1, <2>3, <2>5
  <2> QED BY <2>6 DEF R
<1>7. CASE m.api = "location"
  <2> DEFINE k == <<m.uid>>
             put(rel) == Service!Put(rel, k, m.place)
  <2>1. \A Q : IsStore(Q) => Service!Effect(m, Q) = Become(Q, Location, put(Q[Location]))
    BY <1>7, EffectShape
  <2> HIDE DEF k
  <2>2. Relation(put(S[Location])) /\ put(put(S[Location])) = put(S[Location])
    BY <1>0, TablesAreNames, PutTwice
  <2> HIDE DEF put
  <2>3. R = Become(S, Location, put(S[Location]))
    BY <2>1
  <2> HIDE DEF R
  <2>4. /\ IsStore(R) /\ R[Location] = put(S[Location])
        /\ Become(R, Location, put(S[Location])) = R
    <3>1. IsStore(R) /\ R[Location] = put(S[Location])
      BY <2>2, <2>3, TablesAreNames, BecomeIsStore DEF Relation
    <3>2. Become(R, Location, R[Location]) = R
      BY <3>1, TablesAreNames, BecomeSame
    <3> QED BY <3>1, <3>2
  <2>5. Service!Effect(m, R) = R
    BY <2>1, <2>2, <2>4
  <2> QED BY <2>5 DEF R
<1> QED
  BY <1>1, <1>2, <1>3, <1>4, <1>5, <1>6, <1>7, MessageApi

(***************************************************************************)
(* The channels a lookup finds are stored.                                 *)
(***************************************************************************)
OpensLast(p) == \A i \in DOMAIN p : InsertsInto(p[i], Channel) => i = Len(p)
OpensNone(p) == \A i \in DOMAIN p : ~InsertsInto(p[i], Channel)

Looking == {"check", "address", "facebook", "twitter", "existing", "public"}

LEMMA OpeningPlans ==
  /\ OpensNone(<<>>)
  /\ \A s : ~InsertsInto(s, Channel) => OpensNone(<<s>>)
  /\ \A s, t : ~InsertsInto(s, Channel) /\ ~InsertsInto(t, Channel) => OpensNone(<<s, t>>)
  /\ \A s : OpensLast(<<s>>)
  /\ \A s, t : ~InsertsInto(s, Channel) => OpensLast(<<s, t>>)
  /\ \A p : OpensNone(p) => OpensLast(p)
<1>1. OpensNone(<<>>)
  <2>1. DOMAIN <<>> = {}
    OBVIOUS
  <2> QED BY <2>1 DEF OpensNone
<1>2. ASSUME NEW s
      PROVE  OpensLast(<<s>>) /\ (~InsertsInto(s, Channel) => OpensNone(<<s>>))
  <2>1. DOMAIN <<s>> = {1} /\ <<s>>[1] = s /\ Len(<<s>>) = 1
    OBVIOUS
  <2> QED BY <2>1 DEF OpensLast, OpensNone
<1>3. ASSUME NEW s, NEW t, ~InsertsInto(s, Channel)
      PROVE  /\ OpensLast(<<s, t>>)
             /\ ~InsertsInto(t, Channel) => OpensNone(<<s, t>>)
  <2>1. DOMAIN <<s, t>> = {1, 2} /\ <<s, t>>[1] = s /\ <<s, t>>[2] = t
        /\ Len(<<s, t>>) = 2
    OBVIOUS
  <2> QED BY <1>3, <2>1 DEF OpensLast, OpensNone
<1>4. \A p : OpensNone(p) => OpensLast(p)
  BY DEF OpensNone, OpensLast
<1> QED BY <1>1, <1>2, <1>3, <1>4

LEMMA OpeningConcat ==
  ASSUME NEW p, PlanOK(p), NEW q, PlanOK(q), OpensNone(p)
  PROVE  /\ OpensNone(q) => OpensNone(p \o q)
         /\ OpensLast(q) => OpensLast(p \o q)
<1> DEFINE S == {p[i] : i \in DOMAIN p} \cup {q[i] : i \in DOMAIN q}
           pq == p \o q
<1>1. p \in Seq(S) /\ q \in Seq(S)
  BY SeqMonotonic DEF PlanOK
<1> HIDE DEF S
<1>2. /\ Len(p) \in Nat /\ Len(q) \in Nat
      /\ DOMAIN p = 1..Len(p) /\ DOMAIN q = 1..Len(q)
  BY <1>1
<1>3. /\ pq \in Seq(S) /\ Len(pq) = Len(p) + Len(q)
      /\ \A i \in 1..(Len(p) + Len(q)) :
           pq[i] = IF i <= Len(p) THEN p[i] ELSE q[i - Len(p)]
  BY <1>1, ConcatProperties
<1>4. DOMAIN pq = 1..(Len(p) + Len(q))
  BY <1>2, <1>3
<1> HIDE DEF pq
<1>5. ASSUME NEW i \in DOMAIN pq, InsertsInto(pq[i], Channel)
      PROVE  /\ i > Len(p) /\ i - Len(p) \in DOMAIN q
             /\ InsertsInto(q[i - Len(p)], Channel)
  <2>1. ~(i <= Len(p))
    BY <1>2, <1>3, <1>4, <1>5 DEF OpensNone
  <2> QED BY <1>2, <1>3, <1>4, <1>5, <2>1
<1>6. OpensNone(q) => OpensNone(pq)
  BY <1>5 DEF OpensNone
<1>7. OpensLast(q) => OpensLast(pq)
  <2> SUFFICES ASSUME OpensLast(q), NEW i \in DOMAIN pq, InsertsInto(pq[i], Channel)
        PROVE  i = Len(pq)
    BY DEF OpensLast
  <2>1. i - Len(p) = Len(q) /\ i \in Nat
    BY <1>4, <1>2, <1>5 DEF OpensLast
  <2> QED BY <1>2, <1>3, <2>1
<1> QED BY <1>6, <1>7 DEF pq

LEMMA OpeningStatements ==
  /\ \A T, rows : T # Channel => ~InsertsInto(Insert(T, rows), Channel)
  /\ \A T, keys, v : ~InsertsInto(Update(T, keys, v), Channel)
  /\ \A T, keys : ~InsertsInto(Delete(T, keys), Channel)
BY DEF InsertsInto, Insert, Update, Delete

LEMMA LookupOpens ==
  ASSUME TypeOK, Lookup, OpensNone(plan)
  PROVE  OpensLast(plan') /\ (pc' \in Looking => OpensNone(plan'))
<1>0. HandlerOK /\ PlanOK(plan) /\ pc \notin {"idle", "reply"} /\ OpensLast(plan)
  BY LookupCommand, OpeningPlans DEF TypeOK, HandlerOK, Resting
<1>a. /\ RegInfo # Channel /\ Phone # Channel /\ Address # Channel
      /\ Social # Channel /\ Request # Channel /\ Preference # Channel
      /\ Location # Channel /\ "start" \notin Looking
  BY TableTexts DEF Looking
<1>1. CASE CheckRegistration
  <2> DEFINE a == Insert(RegInfo, {Row(<<msg.uid, msg.email>>, Absent)})
             b == Insert(Phone, {Row(<<msg.uid>>, Absent)})
  <2>1. plan' = plan \/ plan' = <<a, b>>
    BY <1>1 DEF CheckRegistration, Finish, Go
  <2>2. ~InsertsInto(a, Channel) /\ ~InsertsInto(b, Channel)
    BY <1>a, OpeningStatements
  <2> HIDE DEF a, b
  <2> QED BY <1>0, <2>1, <2>2, OpeningPlans
<1>2. CASE CheckAvatar
  <2>1. plan' = plan \/ plan' = <<Update(RegInfo, {msg.uid} \X Emails, msg.url)>>
    BY <1>2 DEF CheckAvatar, BareReturn, Finish, Go
  <2> QED BY <1>0, <2>1, OpeningPlans, OpeningStatements
<1>3. CASE CheckProfile \/ CheckBothUids \/ CheckLocation
  BY <1>0, <1>3 DEF CheckProfile, CheckBothUids, CheckLocation, BareReturn, Finish, Go
<1>4. CASE CheckPreference
  <2> DEFINE keys == {<<msg.uid, msg.list[i].channel>> : i \in DOMAIN msg.list}
             rows == {[key |-> <<msg.uid, msg.list[i].channel>>,
                       val |-> msg.list[i].flag, id |-> i] : i \in DOMAIN msg.list}
             a == Delete(Preference, keys)
             b == Insert(Preference, rows)
  <2>1. plan' = plan \/ plan' = <<a, b>>
    BY <1>4 DEF CheckPreference, Finish, Go
  <2>2. ~InsertsInto(a, Channel) /\ ~InsertsInto(b, Channel)
    BY <1>a, OpeningStatements
  <2> HIDE DEF a, b
  <2> QED BY <1>0, <2>1, <2>2, OpeningPlans
<1>5. CASE LookupAddress
  <2> DEFINE key == <<msg.uid>>
             a == Update(Address, {key}, msg.address)
             b == Insert(Address, {Row(key, msg.address)})
  <2>1. plan' = plan \/ plan' = <<>> \/ plan' = <<a>> \/ plan' = <<b>>
    BY <1>5 DEF LookupAddress, BareReturn, Finish, Go
  <2>2. ~InsertsInto(a, Channel) /\ ~InsertsInto(b, Channel)
    BY <1>a, OpeningStatements
  <2> HIDE DEF a, b
  <2> QED BY <1>0, <2>1, <2>2, OpeningPlans
<1>6. CASE LookupFacebook \/ LookupTwitter
  <2> DEFINE f == SocialStatement("facebook", msg.facebook)
             t == SocialStatement("twitter", msg.twitter)
  <2>1. PlanOK(f) /\ PlanOK(t)
    BY <1>0, <1>6, SocialStatementType, RunningMessage, MessageShape
       DEF LookupFacebook, LookupTwitter, At
  <2>2. plan' = plan \/ plan' = plan \o f \/ plan' = plan \o t
    BY <1>6 DEF LookupFacebook, LookupTwitter, BareReturn, Finish, Go
  <2>3. \A network, handle : OpensNone(SocialStatement(network, handle))
    <3> SUFFICES ASSUME NEW network, NEW handle
          PROVE  OpensNone(SocialStatement(network, handle))
      OBVIOUS
    <3> DEFINE key == <<msg.uid, network>>
               a == Delete(Social, {key})
               b == Update(Social, {key}, handle)
               c == Insert(Social, {Row(key, handle)})
    <3>1. SocialStatement(network, handle) \in {<<>>, <<a>>, <<b>>, <<c>>}
      BY MessagesAssumption DEF SocialStatement
    <3>2. ~InsertsInto(a, Channel) /\ ~InsertsInto(b, Channel) /\ ~InsertsInto(c, Channel)
      BY <1>a, OpeningStatements
    <3> HIDE DEF a, b, c
    <3> QED BY <3>1, <3>2, OpeningPlans
  <2>4. OpensNone(plan \o f) /\ OpensNone(plan \o t)
    <3>1. OpensNone(f) /\ OpensNone(t)
      BY <2>3
    <3> HIDE DEF f, t
    <3> QED BY <1>0, <2>1, <3>1, OpeningConcat
  <2> HIDE DEF f, t
  <2> QED BY <1>0, <2>2, <2>4, OpeningPlans
<1>7. CASE LookupRequest
  <2> DEFINE key == <<msg.from, msg.to>>
             a == Update(Request, {key}, msg.flag)
             b == Insert(Request, {Row(key, msg.flag)})
  <2>1. plan' = plan \/ plan' = <<a>> \/ plan' = <<b>>
    BY <1>7 DEF LookupRequest, Finish, Go
  <2>2. ~InsertsInto(a, Channel) /\ ~InsertsInto(b, Channel)
    BY <1>a, OpeningStatements
  <2> HIDE DEF a, b
  <2> QED BY <1>0, <2>1, <2>2, OpeningPlans
<1>8. CASE LookupPublic
  <2> DEFINE d == Delete(Channel, PairKeys)
             b == Insert(Channel, GrantedRows(view))
  <2>1. \/ plan' = plan /\ pc' = "reply"
        \/ plan' = plan \o GrantStatements /\ pc' = "start"
    BY <1>8, PublicStep DEF Finish, Go
  <2>2. PlanOK(GrantStatements)
    BY <1>8, PublicStep, PublicPlanOK
  <2>3. OpensLast(GrantStatements)
    <3>1. GrantStatements = <<d, b>> /\ ~InsertsInto(d, Channel)
      BY OpeningStatements DEF GrantStatements
    <3> HIDE DEF d, b
    <3> QED BY <3>1, OpeningPlans
  <2>4. OpensLast(plan \o GrantStatements)
    BY <1>0, <2>2, <2>3, OpeningConcat
  <2> QED BY <1>0, <1>a, <2>1, <2>4 DEF Looking
<1>9. CASE LookupChannel
  <2> DEFINE b == Insert(Channel, {Row(<<msg.from, msg.to, msg.type>>, Absent)})
  <2>1. \/ plan' = plan /\ pc' = "reply"
        \/ plan' = <<b>> /\ pc' = "start"
    BY <1>9 DEF LookupChannel, Finish, Go
  <2> HIDE DEF b
  <2> QED BY <1>0, <1>a, <2>1, OpeningPlans DEF Looking
<1>10. CASE LookupLocation
  <2> DEFINE key == <<msg.uid>>
             a == Update(Location, {key}, msg.place)
             b == Insert(Location, {Row(key, msg.place)})
  <2>1. plan' = plan \/ plan' = <<a>> \/ plan' = <<b>>
    BY <1>10 DEF LookupLocation, BareReturn, Finish, Go
  <2>2. ~InsertsInto(a, Channel) /\ ~InsertsInto(b, Channel)
    BY <1>a, OpeningStatements
  <2> HIDE DEF a, b
  <2> QED BY <1>0, <2>1, <2>2, OpeningPlans
<1> QED
  BY <1>1, <1>2, <1>3, <1>4, <1>5, <1>6, <1>7, <1>8, <1>9, <1>10 DEF Lookup

\* no statement but an insert adds a key to the channels
LEMMA ChannelStatement ==
  ASSUME NEW s, StatementOK(s), TablesOK(view), ~InsertsInto(s, Channel)
  PROVE  Keys(Apply(s, view)[Channel]) \subseteq Keys(view[Channel])
<1>1. Channel \in TableNames
  BY TablesAreNames
<1>2. CASE s.table # Channel
  BY <1>1, <1>2, ApplyTable
<1>3. CASE s.table = Channel /\ s.op = "update"
  BY <1>1, <1>3, ApplyTable DEF SetRows, Keys
<1>4. CASE s.table = Channel /\ s.op = "delete"
  BY <1>1, <1>4, ApplyTable DEF DropRows, Keys
<1> QED BY <1>2, <1>3, <1>4 DEF StatementOK, InsertsInto

LEMMA ChannelsStatement ==
  ASSUME TypeOK, KeptInv, ChannelsInv, ExecStatement \/ FailStatement
  PROVE  ChannelsInv'
<1> DEFINE s == Head(plan)
<1>1. /\ pc = "exec" /\ plan # <<>> /\ PlanOK(plan) /\ TablesOK(view)
      /\ Keys(view[Channel]) \subseteq Keys(db[Channel])
      /\ OpensLast(plan)
  BY DEF ExecStatement, FailStatement, TypeOK, HandlerOK, SessionOK, ChannelsInv,
         OpensLast
<1>2. StatementOK(s) /\ s = plan[1] /\ 1 \in DOMAIN plan
  BY <1>1, PlanShape
<1>3. CASE ExecStatement
  <2>1. /\ view' = Apply(s, view) /\ db' \in {db, view'} /\ plan' = Tail(plan)
        /\ pc' = AfterStatement(Tail(plan))
    BY <1>3 DEF ExecStatement, Executed, Go
  <2>2. /\ Len(Tail(plan)) = Len(plan) - 1 /\ Len(plan) \in Nat
        /\ Len(Tail(plan)) = 0 => Tail(plan) = <<>>
    <3> DEFINE S == {plan[i] : i \in DOMAIN plan}
    <3>1. plan \in Seq(S) /\ plan # <<>>
      BY <1>1 DEF PlanOK
    <3> HIDE DEF S
    <3>2. Tail(plan) \in Seq(S) /\ Len(Tail(plan)) = Len(plan) - 1
      BY <3>1, HeadTailProperties
    <3> QED BY <3>1, <3>2, EmptySeq
  <2>3. OpensLast(plan')
    <3> SUFFICES ASSUME NEW i \in DOMAIN Tail(plan), InsertsInto(Tail(plan)[i], Channel)
          PROVE  i = Len(Tail(plan))
      BY <2>1 DEF OpensLast
    <3>1. i \in Nat /\ i + 1 \in DOMAIN plan /\ Tail(plan)[i] = plan[i + 1]
      BY <1>1, PlanShape
    <3>2. i + 1 = Len(plan)
      BY <1>1, <3>1 DEF OpensLast
    <3> QED BY <2>2, <3>1, <3>2
  <2>4. CASE InsertsInto(s, Channel)
    <3>1. Len(plan) = 1
      BY <1>1, <1>2, <2>4 DEF OpensLast
    <3>2. pc' = "commit" /\ plan' = <<>>
      BY <2>1, <2>2, <3>1 DEF AfterStatement
    <3>3. DOMAIN plan' = {}
      BY <3>2
    <3> QED BY <3>2, <3>3 DEF ChannelsInv
  <2>5. CASE ~InsertsInto(s, Channel)
    <3>1. Keys(view'[Channel]) \subseteq Keys(view[Channel])
      BY <1>1, <1>2, <2>1, <2>5, ChannelStatement
    <3>2. pc' \in {"exec", "commit"}
      BY <2>1 DEF AfterStatement
    <3> QED BY <1>1, <2>1, <2>3, <3>1, <3>2 DEF ChannelsInv, OpensLast
  <2> QED BY <2>4, <2>5
<1>4. CASE FailStatement
  <2>1. pc' \in {"rollback", "reply"} /\ (plan' = plan \/ plan' = <<>>)
    BY <1>4 DEF FailStatement, Go, BareReturn, Finish
  <2>2. OpensLast(plan')
    BY <1>1, <2>1, OpeningPlans
  <2>3. db' = view' \/ (db' = db /\ view' \in {view, db})
    BY <1>4 DEF FailStatement, Refused, ExecutedUnheard, NotAnswered, LoseConnection
  <2> QED BY <1>1, <2>1, <2>2, <2>3 DEF ChannelsInv, OpensLast
<1> QED BY <1>3, <1>4

LEMMA ChannelsKept ==
  ASSUME TypeOK, KeptInv, ChannelsInv, [Next]_vars
  PROVE  ChannelsInv'
<1>0. OpensLast(plan) /\ (pc \in Looking => OpensNone(plan))
  BY DEF ChannelsInv, OpensLast, OpensNone, Looking
<1>1. CASE ExecStatement \/ FailStatement
  BY <1>1, ChannelsStatement
<1>2. ASSUME ~(ExecStatement \/ FailStatement)
      PROVE  pc' # "commit" => Keys(view'[Channel]) \subseteq Keys(db'[Channel])
  <2>1. \/ Answered \/ NotAnswered \/ Started \/ Committed \/ CommittedUnheard
        \/ RolledBack \/ LoseConnection \/ NewSession \/ UNCHANGED sessionVars
    BY <1>2, LookupCommand
       DEF Next, Receive, Ping, RequestWithoutFlag, StartTransaction, Commit,
           Rollback, Reply, Disconnect, Restart, vars
  <2>2. view' = db' \/ (view' = view /\ db' = db)
    BY <2>1 DEF Answered, NotAnswered, Started, Committed, CommittedUnheard,
                RolledBack, LoseConnection, NewSession, sessionVars
  <2>3. CASE pc # "commit"
    BY <2>2, <2>3 DEF ChannelsInv
  <2>4. CASE pc = "commit" /\ pc' # "commit"
    <3>1. Commit \/ Restart
      BY <1>2, <2>4, LookupCommand
         DEF Next, Receive, Ping, RequestWithoutFlag, StartTransaction, At, Rollback,
             Reply, Disconnect, vars, handlerVars, Resting, AtRest
    <3>2. view' = db'
      BY <3>1 DEF Commit, Restart, Committed, CommittedUnheard, NotAnswered,
                  LoseConnection, NewSession, KeptInv, SessionInv, TypeOK, SessionOK
    <3> QED BY <3>2
  <2> QED BY <2>3, <2>4
<1>3. ASSUME ~(ExecStatement \/ FailStatement)
      PROVE  OpensLast(plan') /\ (pc' \in Looking => OpensNone(plan'))
  <2>1. CASE Lookup
    <3>1. pc \in Looking
      BY <2>1 DEF Lookup, CheckRegistration, CheckAvatar, CheckProfile, CheckBothUids,
                  CheckPreference, CheckLocation, LookupAddress, LookupFacebook,
                  LookupTwitter, LookupRequest, LookupPublic, LookupChannel,
                  LookupLocation, At, Looking
    <3> QED BY <1>0, <2>1, <3>1, LookupOpens
  <2>2. CASE ~Lookup
    <3>1. \/ plan' = <<>>
          \/ plan' = plan /\ (pc' = pc \/ pc' \in {"exec", "commit", "reply"})
      BY <1>3, <2>2
         DEF Next, Receive, Ping, RequestWithoutFlag, StartTransaction, Commit,
             Rollback, Reply, Disconnect, Restart, vars, handlerVars, Go, Finish,
             Idle, AfterStatement
    <3> QED BY <1>0, <3>1, OpeningPlans DEF Looking
  <2> QED BY <2>1, <2>2
<1> QED
  BY <1>1, <1>2, <1>3 DEF ChannelsInv, OpensLast, OpensNone, Looking

(***************************************************************************)
(* What is acknowledged is stored.                                         *)
(***************************************************************************)
LEMMA OpenChannelStored ==
  ASSUME TypeOK, ChannelsInv, pc = "existing", msg \in Messages,
         msg.api = "cxn_channel",
         Found(Channel, <<msg.from, msg.to, msg.type>>)
  PROVE  Service!Effect(msg, Stored(db)) = Stored(db)
<1> DEFINE k == <<msg.from, msg.to, msg.type>>
           S == Stored(db)
<1>1. IsStore(S) /\ Channel \in TableNames /\ TablesOK(db)
  BY StoredIsStore, TablesAreNames DEF TypeOK, SessionOK
<1>2. Service!Effect(msg, S) = Become(S, Channel, Service!Put(S[Channel], k, Absent))
  BY <1>1, EffectShape
<1>3. k \in Keys(db[Channel])
  BY DEF ChannelsInv, Found
<1> HIDE DEF k
<1>4. ValuesOf[Channel] = {Absent}
  BY TableDefs DEF ValuesOf, Channel
<1>5. \A q \in S[Channel] : q = <<q[1], q[2]>> /\ q[2] = Absent
  BY <1>1, <1>4, PairsAreTyped
<1>6. <<k, Absent>> \in S[Channel]
  <2>1. PICK r \in db[Channel] : r.key = k
    BY <1>3 DEF Keys
  <2>2. PICK p \in S[Channel] : p[1] = r.key
    BY <1>1, StoredPairs
  <2>3. p = <<k, Absent>>
    BY <1>5, <2>1, <2>2
  <2> QED BY <2>3
<1> HIDE DEF S
<1>7. Service!Put(S[Channel], k, Absent) = S[Channel] \cup {<<k, Absent>>}
  BY <1>5, PutSame
<1>8. Service!Put(S[Channel], k, Absent) = S[Channel]
  BY <1>6, <1>7
<1>9. Service!Effect(msg, S) = S
  BY <1>1, <1>2, <1>8, BecomeSame
<1> QED BY <1>9 DEF S

LEMMA CommitAcknowledges ==
  ASSUME "drop" \notin Faults, TypeOK, KeptInv, ServiceInv, Commit
  PROVE  /\ msg' = msg /\ msg \in Messages
         /\ Stored(db') = Service!Effect(msg, Stored(db))
<1>1. pc = "commit" /\ msg' = msg /\ plan = <<>> /\ msg \in Messages
  BY DEF Commit, Finish, ServiceInv, EffectInv, TypeOK, HandlerOK
<1>2. link = "up"
  BY DEF ServiceInv, RestInv, QuietInv
<1>3. db' = view
  BY <1>2 DEF Commit, Committed, CommittedUnheard, NotAnswered, LoseConnection
<1>4. Run(plan, Stored(view)) = Service!Effect(msg, Stored(db))
  BY <1>1, <1>2 DEF ServiceInv, EffectInv, Lost
<1> QED BY <1>1, <1>3, <1>4, RunLiterals

LEMMA AcknowledgedKept ==
  ASSUME "drop" \notin Faults, TypeOK, KeptInv, ServiceInv, ChannelsInv,
         AcknowledgedIsStored, [Next]_vars
  PROVE  AcknowledgedIsStored'
<1> SUFFICES ASSUME status' = "200"
      PROVE  Service!Effect(msg', Stored(db')) = Stored(db')
  BY DEF AcknowledgedIsStored
<1>1. CASE Commit
  <2>1. /\ msg' = msg /\ msg \in Messages
        /\ Stored(db') = Service!Effect(msg, Stored(db))
    BY <1>1, CommitAcknowledges
  <2>2. IsStore(Stored(db))
    BY StoredIsStore
  <2> QED BY <2>1, <2>2, EffectTwice
<1>2. CASE LookupChannel
  <2>1. pc = "existing" /\ msg.api = "cxn_channel" /\ status = "none"
    BY <1>2 DEF LookupChannel, At, ServiceInv, EffectInv
  <2>2. /\ Found(Channel, <<msg.from, msg.to, msg.type>>)
        /\ msg' = msg /\ db' = db
    BY <1>2, <2>1 DEF LookupChannel, Finish, Go, Answered
  <2>3. msg \in Messages
    BY <2>1 DEF TypeOK, HandlerOK
  <2> QED BY <2>1, <2>2, <2>3, OpenChannelStored
<1>3. CASE ~Commit /\ ~LookupChannel
  <2>1. status = "200"
    BY <1>3
       DEF Next, Receive, Ping, Lookup, CheckRegistration, CheckAvatar, CheckProfile,
           CheckBothUids, CheckPreference, CheckLocation, LookupAddress,
           LookupFacebook, LookupTwitter, LookupRequest, LookupPublic, LookupLocation,
           RequestWithoutFlag, StartTransaction, ExecStatement, FailStatement,
           Rollback, Reply, Disconnect, Restart, vars, handlerVars, Go, Finish,
           BareReturn, Idle
  <2>2. pc = "reply"
    BY <2>1 DEF ServiceInv, EffectInv
  <2>3. Ping \/ Disconnect \/ UNCHANGED vars
    BY <1>3, <2>2, LookupCommand
       DEF Next, Receive, RequestWithoutFlag, At, StartTransaction, ExecStatement,
           FailStatement, Rollback, Reply, Restart, Idle, Resting
  <2>4. db' = db /\ msg' = msg
    BY <2>3 DEF Ping, Disconnect, Answered, NotAnswered, LoseConnection, vars,
                sessionVars, handlerVars
  <2> QED BY <2>1, <2>4 DEF AcknowledgedIsStored
<1> QED BY <1>1, <1>2, <1>3

\* An update answered with 200 is in the database (mysqldb_handler.c ignores
\* what START TRANSACTION and COMMIT return): performing it once more would
\* change nothing.  The connection must not break, but the server may refuse
\* statements and the process may crash.
THEOREM AcknowledgedIsStoredHolds ==
  ASSUME "drop" \notin Faults
  PROVE  Spec => []AcknowledgedIsStored
<1>1. Calm
  BY DEF Calm
<1>2. Init => ChannelsInv /\ AcknowledgedIsStored
  <2>1. DOMAIN <<>> = {}
    OBVIOUS
  <2> QED BY <2>1 DEF Init, SessionInit, ChannelsInv, AcknowledgedIsStored
<1>3. /\ TypeOK /\ KeptInv /\ ServiceInv /\ ChannelsInv /\ AcknowledgedIsStored
      /\ [Next]_vars
      => (ChannelsInv /\ AcknowledgedIsStored)'
  BY ChannelsKept, AcknowledgedKept
<1> QED
  BY <1>1, <1>2, <1>3, ServiceInvHolds, TypeCorrect, KeptInvariant, PTL DEF Spec

=============================================================================
