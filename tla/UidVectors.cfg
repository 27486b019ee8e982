CONSTANTS
  BuzBucket <- Buckets
  People <- AllPeople
  Absent = Absent
SPECIFICATION Spec
INVARIANTS PhoneRecovered RefusedForReason
