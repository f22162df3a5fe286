--------------------------- MODULE AdmissionProofs ---------------------------
(***************************************************************************)
(* Admission for any number of connections and addresses, any limits that  *)
(* NodeConfig::validate accepts and any window: the two tables are those   *)
(* of the swarm, and no window of RATE_WINDOW lets an address in more than *)
(* twice the limit, although a full table is cleaned of old buckets.       *)
(***************************************************************************)
EXTENDS Admission, FiniteSetTheorems, TLAPS

Buckets == [started : Nat, attempts : Nat]
Admissions == [ip : Ips, time : Nat]

TypeOK ==
  /\ now \in Nat
  /\ swarm \in [Connections \cup Outbound ->
                  {"new", "negotiating", "open", "closed"}]
  /\ pending \in [DOMAIN pending -> Ips]
  /\ established \in [DOMAIN established -> Ips]
  /\ rate \in [DOMAIN rate -> Buckets] /\ DOMAIN rate \subseteq Ips
  /\ admitted \in [DOMAIN admitted -> Admissions]
  /\ IsFiniteSet(DOMAIN admitted)

\* The tables, next to the history of what was admitted.
TablesAgree ==
  /\ DOMAIN pending = {c \in Connections : swarm[c] = "negotiating"}
  /\ DOMAIN established = {c \in Connections : swarm[c] = "open"}
  /\ DOMAIN pending \cup DOMAIN established \subseteq DOMAIN admitted
  /\ \A c \in DOMAIN admitted : c \in Connections /\ swarm[c] # "new"
  /\ \A c \in DOMAIN pending : pending[c] = admitted[c].ip
  /\ \A c \in DOMAIN established : established[c] = admitted[c].ip

WithinLimit ==
  \A ip \in Ips : Cardinality(Held(ip)) <= max_connections_per_ip
-----------------------------------------------------------------------------
(* What a history a of admissions says of an address. *)

Of(a, ip) == {c \in DOMAIN a : a[c].ip = ip}

\* Since the bucket started, in the window before it, and in the window that
\* ends now.
From(a, ip, t) == {c \in Of(a, ip) : a[c].time >= t}
Before(a, ip, t) == {c \in Of(a, ip) : a[c].time < t /\ t < a[c].time + RATE_WINDOW}
Recent(a, ip, t) == {c \in Of(a, ip) : t < a[c].time + RATE_WINDOW}
Window(a, ip, s) == {c \in Of(a, ip) : a[c].time \in s..(s + RATE_WINDOW - 1)}

\* A bucket counts what was admitted since it started, all of it within its
\* window, and the window before it had no more than one bucket.
Counts(a, t, ip, b) ==
  /\ b.started <= t
  /\ b.attempts <= attempts_per_minute
  /\ \A c \in Of(a, ip) : a[c].time < b.started + RATE_WINDOW
  /\ Cardinality(From(a, ip, b.started)) <= b.attempts
  /\ Cardinality(Before(a, ip, b.started)) <= attempts_per_minute

\* An address without a bucket was let in no more than one bucket's worth in
\* the window that ends now, and not at this instant.
Forgotten(a, t, ip) ==
  /\ \A c \in Of(a, ip) : a[c].time < t
  /\ Cardinality(Recent(a, ip, t)) <= attempts_per_minute

Remembers(a, t, r) ==
  \A ip \in Ips : IF ip \in DOMAIN r THEN Counts(a, t, ip, r[ip])
                                     ELSE Forgotten(a, t, ip)

TwoBuckets(a) ==
  \A ip \in Ips, s \in Nat :
    Cardinality(Window(a, ip, s)) <= 2 * attempts_per_minute

RateAgrees ==
  /\ \A c \in DOMAIN admitted : admitted[c].time <= now
  /\ Remembers(admitted, now, rate)
  /\ TwoBuckets(admitted)

IInv == TypeOK /\ TablesAgree /\ WithinLimit /\ RateAgrees
-----------------------------------------------------------------------------
\* A part of a finite set is finite and no larger.
LEMMA SmallerSet ==
  ASSUME NEW S, NEW T, IsFiniteSet(T), S \subseteq T
  PROVE  /\ IsFiniteSet(S)
         /\ Cardinality(S) \in Nat /\ Cardinality(T) \in Nat
         /\ Cardinality(S) <= Cardinality(T)
  BY FS_Subset, FS_CardinalityType

\* What is counted of a finite history is finite.
LEMMA FiniteParts ==
  ASSUME NEW a, IsFiniteSet(DOMAIN a), NEW ip, NEW t
  PROVE  /\ IsFiniteSet(Of(a, ip)) /\ IsFiniteSet(From(a, ip, t))
         /\ IsFiniteSet(Before(a, ip, t)) /\ IsFiniteSet(Recent(a, ip, t))
         /\ IsFiniteSet(Window(a, ip, t))
<1>1. IsFiniteSet(Of(a, ip))
  BY SmallerSet DEF Of
<1> QED
  BY <1>1, SmallerSet DEF From, Before, Recent, Window

\* Time passes: a bucket keeps what it counts, and fewer admissions are recent.
LEMMA TickRemembers ==
  ASSUME AdmissionAssumption, NEW a, a \in [DOMAIN a -> Admissions],
         IsFiniteSet(DOMAIN a), NEW t \in Nat, NEW r,
         r \in [DOMAIN r -> Buckets],
         Remembers(a, t, r)
  PROVE  Remembers(a, t + 1, r)
<1> SUFFICES ASSUME NEW ip \in Ips
             PROVE  IF ip \in DOMAIN r THEN Counts(a, t + 1, ip, r[ip])
                                       ELSE Forgotten(a, t + 1, ip)
  BY DEF Remembers
<1>1. CASE ip \in DOMAIN r
  BY <1>1 DEF Remembers, Counts, Buckets
<1>2. CASE ip \notin DOMAIN r
  <2>1. Forgotten(a, t, ip)
    BY <1>2 DEF Remembers
  <2>2. \A c \in Of(a, ip) : a[c].time \in Nat
    BY DEF Of, Admissions
  <2>3. Recent(a, ip, t + 1) \subseteq Recent(a, ip, t)
    BY <2>2 DEF Recent, AdmissionAssumption
  <2>4. Cardinality(Recent(a, ip, t + 1)) <= attempts_per_minute
    <3>1. /\ Cardinality(Recent(a, ip, t + 1)) \in Nat
          /\ Cardinality(Recent(a, ip, t)) \in Nat
          /\ Cardinality(Recent(a, ip, t + 1)) <= Cardinality(Recent(a, ip, t))
      BY <2>3, FiniteParts, SmallerSet
    <3> QED
      BY <2>1, <3>1 DEF Forgotten, AdmissionAssumption, ValidLimits
  <2> QED
    BY <1>2, <2>1, <2>2, <2>4 DEF Forgotten
<1> QED
  BY <1>1, <1>2

\* A bucket whose window is over is forgotten without harm: what it counted is
\* all that can be recent.
LEMMA BucketOver ==
  ASSUME AdmissionAssumption, NEW a, a \in [DOMAIN a -> Admissions],
         IsFiniteSet(DOMAIN a), NEW t \in Nat, NEW ip \in Ips,
         NEW b \in Buckets, Counts(a, t, ip, b), b.started + RATE_WINDOW <= t
  PROVE  Forgotten(a, t, ip)
<1>1. /\ b.started \in Nat /\ b.attempts \in Nat /\ RATE_WINDOW \in Nat \ {0}
      /\ attempts_per_minute \in Nat
  BY DEF Buckets, AdmissionAssumption, ValidLimits
<1>2. \A c \in Of(a, ip) : a[c].time \in Nat /\ a[c].time < b.started + RATE_WINDOW
  BY DEF Of, Admissions, Counts
<1>3. Recent(a, ip, t) \subseteq From(a, ip, b.started)
  BY <1>1, <1>2 DEF Recent, From
<1>4. Cardinality(Recent(a, ip, t)) <= attempts_per_minute
  <2>1. /\ Cardinality(Recent(a, ip, t)) \in Nat
        /\ Cardinality(From(a, ip, b.started)) \in Nat
        /\ Cardinality(Recent(a, ip, t)) <= Cardinality(From(a, ip, b.started))
    BY <1>3, FiniteParts, SmallerSet
  <2> QED
    BY <1>1, <2>1 DEF Counts
<1> QED
  BY <1>1, <1>2, <1>4 DEF Forgotten

\* An address that was forgotten starts a new bucket.
LEMMA NewBucket ==
  ASSUME AdmissionAssumption, NEW a, a \in [DOMAIN a -> Admissions],
         IsFiniteSet(DOMAIN a), NEW t \in Nat, NEW ip \in Ips,
         Forgotten(a, t, ip)
  PROVE  Counts(a, t, ip, [started |-> t, attempts |-> 0])
<1>1. RATE_WINDOW \in Nat \ {0} /\ attempts_per_minute \in Nat
  BY DEF AdmissionAssumption, ValidLimits
<1>2. \A c \in Of(a, ip) : a[c].time \in Nat /\ a[c].time < t
  BY DEF Of, Admissions, Forgotten
<1>3. Cardinality(From(a, ip, t)) <= 0
  <2>1. From(a, ip, t) = {}
    BY <1>2 DEF From
  <2> QED
    BY <2>1, FS_EmptySet
<1>4. Cardinality(Before(a, ip, t)) <= attempts_per_minute
  <2>1. Before(a, ip, t) \subseteq Recent(a, ip, t)
    BY DEF Before, Recent
  <2>2. /\ Cardinality(Before(a, ip, t)) \in Nat
        /\ Cardinality(Recent(a, ip, t)) \in Nat
        /\ Cardinality(Before(a, ip, t)) <= Cardinality(Recent(a, ip, t))
    BY <2>1, FiniteParts, SmallerSet
  <2> QED
    BY <1>1, <2>2 DEF Forgotten
<1> QED
  BY <1>1, <1>2, <1>3, <1>4 DEF Counts

\* One more admission, counted in the bucket of its address: the bucket and
\* what is left of the one before it are all that a window can touch.
LEMMA Admitting ==
  ASSUME AdmissionAssumption, NEW a, a \in [DOMAIN a -> Admissions],
         IsFiniteSet(DOMAIN a), NEW t \in Nat,
         \A c \in DOMAIN a : a[c].time <= t,
         NEW r, Remembers(a, t, r), TwoBuckets(a),
         NEW ip \in Ips, NEW b \in Buckets, Counts(a, t, ip, b),
         t < b.started + RATE_WINDOW, b.attempts < attempts_per_minute,
         NEW c, c \notin DOMAIN a,
         NEW e, e = Insert(a, c, [ip |-> ip, time |-> t])
  PROVE  /\ Remembers(e, t, Insert(r, ip, [b EXCEPT !.attempts = @ + 1]))
         /\ TwoBuckets(e)
<1> DEFINE n == [b EXCEPT !.attempts = @ + 1]
<1>1. /\ b.started \in Nat /\ b.attempts \in Nat /\ RATE_WINDOW \in Nat \ {0}
      /\ attempts_per_minute \in Nat /\ b.started <= t
      /\ n.started = b.started /\ n.attempts = b.attempts + 1
  BY DEF Buckets, AdmissionAssumption, ValidLimits, Counts
<1>2. /\ DOMAIN e = DOMAIN a \cup {c}
      /\ e[c].ip = ip /\ e[c].time = t
      /\ \A d \in DOMAIN a : e[d] = a[d] /\ d # c
  BY DEF Insert
<1>3. /\ \A d \in DOMAIN a : a[d].time \in Nat /\ a[d].time <= t
      /\ \A q : Of(a, q) \subseteq DOMAIN a
  BY DEF Admissions, Of
<1>4. ASSUME NEW q \in Ips, q # ip
      PROVE  /\ Of(e, q) = Of(a, q)
             /\ \A s : /\ From(e, q, s) = From(a, q, s)
                       /\ Before(e, q, s) = Before(a, q, s)
                       /\ Recent(e, q, s) = Recent(a, q, s)
                       /\ Window(e, q, s) = Window(a, q, s)
  <2>1. Of(e, q) = Of(a, q)
    BY <1>2, <1>4 DEF Of
  <2> QED
    BY <1>2, <1>3, <2>1 DEF From, Before, Recent, Window
<1>5. Of(e, ip) = Of(a, ip) \cup {c}
  BY <1>2 DEF Of
<1>6. From(e, ip, b.started) = From(a, ip, b.started) \cup {c}
  BY <1>1, <1>2, <1>3, <1>5 DEF From
<1>7. Before(e, ip, b.started) = Before(a, ip, b.started)
  BY <1>1, <1>2, <1>3, <1>5 DEF Before
<1>8. /\ IsFiniteSet(From(e, ip, b.started))
      /\ Cardinality(From(e, ip, b.started)) \in Nat
      /\ Cardinality(From(e, ip, b.started)) <= b.attempts + 1
      /\ IsFiniteSet(Before(e, ip, b.started))
      /\ Cardinality(Before(e, ip, b.started)) \in Nat
      /\ Cardinality(Before(e, ip, b.started)) <= attempts_per_minute
  <2>1. IsFiniteSet(From(a, ip, b.started)) /\ IsFiniteSet(Before(a, ip, b.started))
    BY FiniteParts
  <2>2. c \notin From(a, ip, b.started)
    BY DEF From, Of
  <2>3. /\ IsFiniteSet(From(e, ip, b.started))
        /\ Cardinality(From(e, ip, b.started))
             = Cardinality(From(a, ip, b.started)) + 1
    BY <1>6, <2>1, <2>2, FS_AddElement
  <2>4. /\ Cardinality(From(a, ip, b.started)) \in Nat
        /\ Cardinality(Before(a, ip, b.started)) \in Nat
    BY <2>1, FS_CardinalityType
  <2> QED
    BY <1>1, <1>7, <2>1, <2>3, <2>4 DEF Counts
<1>9. Counts(e, t, ip, n)
  <2>1. \A d \in Of(e, ip) : e[d].time < b.started + RATE_WINDOW
    BY <1>2, <1>3, <1>5 DEF Counts
  <2> HIDE DEF n
  <2> QED
    BY <1>1, <1>8, <2>1 DEF Counts
<1>10. Remembers(e, t, Insert(r, ip, n))
  <2> HIDE DEF n
  <2>1. ASSUME NEW q \in Ips, q # ip
        PROVE  IF q \in DOMAIN r THEN Counts(e, t, q, r[q]) ELSE Forgotten(e, t, q)
    <3>1. Of(e, q) = Of(a, q) /\ \A d \in Of(a, q) : e[d] = a[d]
      BY <1>2, <1>3, <1>4, <2>1
    <3> QED
      BY <1>4, <2>1, <3>1 DEF Remembers, Counts, Forgotten
  <2>2. /\ DOMAIN Insert(r, ip, n) = DOMAIN r \cup {ip}
        /\ Insert(r, ip, n)[ip] = n
        /\ \A q \in DOMAIN r : q # ip => Insert(r, ip, n)[q] = r[q]
    BY DEF Insert
  <2> QED
    BY <1>9, <2>1, <2>2 DEF Remembers
<1>11. ASSUME NEW s \in Nat
       PROVE  Cardinality(Window(e, ip, s)) <= 2 * attempts_per_minute
  <2>1. CASE t \in s..(s + RATE_WINDOW - 1)
    <3>1. Window(e, ip, s)
            \subseteq From(e, ip, b.started) \cup Before(e, ip, b.started)
      <4> SUFFICES ASSUME NEW d \in Window(e, ip, s), e[d].time < b.started
                   PROVE  d \in Before(e, ip, b.started)
        BY <1>1, <1>2, <1>3, <1>5 DEF Window, From
      <4>1. /\ d \in Of(e, ip) /\ e[d].time \in Nat
            /\ s <= e[d].time /\ t <= s + RATE_WINDOW - 1
        BY <1>1, <1>2, <1>3, <1>5, <2>1 DEF Window
      <4> QED
        BY <1>1, <4>1 DEF Before
    <3>2. Cardinality(From(e, ip, b.started) \cup Before(e, ip, b.started))
            <= Cardinality(From(e, ip, b.started))
                 + Cardinality(Before(e, ip, b.started))
      <4>1. LET F == From(e, ip, b.started)
                B == Before(e, ip, b.started)
            IN  /\ IsFiniteSet(F \cup B)
                /\ Cardinality(F \cup B) =
                     Cardinality(F) + Cardinality(B) - Cardinality(F \cap B)
                /\ Cardinality(F \cap B) \in Nat
        BY <1>8, FS_Union, FS_Intersection, FS_CardinalityType
      <4> QED
        BY <1>8, <4>1
    <3>3. /\ IsFiniteSet(From(e, ip, b.started) \cup Before(e, ip, b.started))
      BY <1>8, FS_Union
    <3>4. /\ Cardinality(Window(e, ip, s)) \in Nat
          /\ Cardinality(Window(e, ip, s)) <=
               Cardinality(From(e, ip, b.started) \cup Before(e, ip, b.started))
          /\ Cardinality(From(e, ip, b.started) \cup Before(e, ip, b.started))
               \in Nat
      BY <3>1, <3>3, SmallerSet
    <3> QED
      BY <1>1, <1>8, <3>2, <3>4
  <2>2. CASE t \notin s..(s + RATE_WINDOW - 1)
    <3>1. Window(e, ip, s) = Window(a, ip, s)
      BY <1>2, <1>3, <1>5, <2>2 DEF Window
    <3> QED
      BY <3>1 DEF TwoBuckets
  <2> QED
    BY <2>1, <2>2
<1>12. TwoBuckets(e)
  <2> SUFFICES ASSUME NEW q \in Ips, NEW s \in Nat
               PROVE  Cardinality(Window(e, q, s)) <= 2 * attempts_per_minute
    BY DEF TwoBuckets
  <2> QED
    BY <1>4, <1>11 DEF TwoBuckets
<1> QED
  BY <1>10, <1>12

-----------------------------------------------------------------------------
(* The table of buckets. *)

\* What cleaning drops is forgotten without harm.
LEMMA CleanedRemembers ==
  ASSUME AdmissionAssumption, TypeOK, RateAgrees, NEW ip \in Ips
  PROVE  /\ Cleaned(ip) \in [DOMAIN Cleaned(ip) -> Buckets]
         /\ DOMAIN Cleaned(ip) \subseteq DOMAIN rate
         /\ Remembers(admitted, now, Cleaned(ip))
<1>1. /\ DOMAIN Retained = {q \in DOMAIN rate : now - rate[q].started < RATE_WINDOW}
      /\ \A q \in DOMAIN Retained : Retained[q] = rate[q]
      /\ Retained \in [DOMAIN Retained -> Buckets]
  BY DEF Retained, RestrictValues, Restrict, TypeOK
<1>2. ASSUME NEW q \in Ips, q \in DOMAIN rate, q \notin DOMAIN Retained
      PROVE  Forgotten(admitted, now, q)
  <2>1. /\ rate[q] \in Buckets
        /\ Counts(admitted, now, q, rate[q])
        /\ ~(now - rate[q].started < RATE_WINDOW)
    BY <1>1, <1>2 DEF TypeOK, RateAgrees, Remembers
  <2>2. rate[q].started + RATE_WINDOW <= now
    BY <2>1 DEF Buckets, TypeOK, AdmissionAssumption
  <2> QED
    BY <2>1, <2>2, BucketOver DEF TypeOK
<1>3. Remembers(admitted, now, Retained)
  BY <1>1, <1>2 DEF RateAgrees, Remembers
<1> QED
  BY <1>1, <1>3 DEF Cleaned, TypeOK, RateAgrees

\* The bucket that admit counts in, whether it goes on or starts here.
LEMMA BucketCounts ==
  ASSUME AdmissionAssumption, TypeOK, RateAgrees, NEW ip \in Ips
  PROVE  /\ Bucket(ip) \in Buckets
         /\ Counts(admitted, now, ip, Bucket(ip))
         /\ now < Bucket(ip).started + RATE_WINDOW
<1>1. /\ Cleaned(ip) \in [DOMAIN Cleaned(ip) -> Buckets]
      /\ Remembers(admitted, now, Cleaned(ip))
  BY CleanedRemembers
<1> DEFINE fresh == [started |-> now, attempts |-> 0]
<1>2. CASE ip \in DOMAIN Cleaned(ip) /\ now - Cleaned(ip)[ip].started < RATE_WINDOW
  <2>1. Bucket(ip) = Cleaned(ip)[ip] /\ Bucket(ip) \in Buckets
    BY <1>1, <1>2 DEF Bucket
  <2>2. now < Bucket(ip).started + RATE_WINDOW
    BY <1>2, <2>1 DEF Buckets, TypeOK, AdmissionAssumption
  <2> QED
    BY <1>1, <1>2, <2>1, <2>2 DEF Remembers
<1>3. CASE ~(ip \in DOMAIN Cleaned(ip) /\ now - Cleaned(ip)[ip].started < RATE_WINDOW)
  <2>1. Bucket(ip) = fresh
    BY <1>3 DEF Bucket
  <2>2. Forgotten(admitted, now, ip)
    <3>1. CASE ip \in DOMAIN Cleaned(ip)
      <4>1. /\ Cleaned(ip)[ip] \in Buckets
            /\ Counts(admitted, now, ip, Cleaned(ip)[ip])
        BY <1>1, <3>1 DEF Remembers
      <4>2. Cleaned(ip)[ip].started + RATE_WINDOW <= now
        BY <1>3, <3>1, <4>1 DEF Buckets, TypeOK, AdmissionAssumption
      <4> QED
        BY <4>1, <4>2, BucketOver DEF TypeOK
    <3>2. CASE ip \notin DOMAIN Cleaned(ip)
      BY <1>1, <3>2 DEF Remembers
    <3> QED
      BY <3>1, <3>2
  <2>3. fresh \in Buckets /\ now < fresh.started + RATE_WINDOW
    BY DEF Buckets, TypeOK, AdmissionAssumption
  <2>4. Counts(admitted, now, ip, fresh)
    BY <2>2, NewBucket DEF TypeOK
  <2> QED
    BY <2>1, <2>3, <2>4
<1> QED
  BY <1>2, <1>3

\* Whatever admit decides, the table it leaves remembers what was admitted.
LEMMA DeniedRemembers ==
  ASSUME AdmissionAssumption, TypeOK, RateAgrees,
         NEW ip \in Ips \cup {NoIp}, denied(ip)
  PROVE  /\ rate' \in [DOMAIN rate' -> Buckets] /\ DOMAIN rate' \subseteq Ips
         /\ Remembers(admitted, now, rate')
<1>1. CASE UNCHANGED rate
  BY <1>1 DEF TypeOK, RateAgrees
<1>2. CASE ip \in Ips /\ rate' = Cleaned(ip)
  BY <1>2, CleanedRemembers DEF TypeOK
<1>3. CASE ip \in Ips /\ rate' = Insert(Cleaned(ip), ip, Bucket(ip))
  BY <1>3, CleanedRemembers, BucketCounts DEF TypeOK, Insert, Remembers
<1> QED
  BY <1>1, <1>2, <1>3 DEF denied

-----------------------------------------------------------------------------
(* The invariant, one lemma for each handler. *)

\* A slot is given to an address only below its limit; nothing else takes one.
LEMMA HeldGrows ==
  ASSUME AdmissionAssumption, TypeOK, TablesAgree, WithinLimit,
         NEW S \in SUBSET Ips,
         \A ip \in S : Cardinality(Held(ip)) < max_connections_per_ip,
         NEW c, \A ip \in S : Held(ip)' \subseteq Held(ip) \cup {c},
         \A ip \in Ips \ S : Held(ip)' \subseteq Held(ip)
  PROVE  WithinLimit'
<1>1. \A ip \in Ips : IsFiniteSet(Held(ip))
  <2>1. \A ip \in Ips : Held(ip) \subseteq DOMAIN admitted
    BY DEF Held, TablesAgree
  <2> QED
    BY <2>1, SmallerSet DEF TypeOK
<1>2. max_connections_per_ip \in Nat
  BY DEF AdmissionAssumption, ValidLimits
<1>3. ASSUME NEW ip \in S
      PROVE  Cardinality(Held(ip)') <= max_connections_per_ip
  <2>1. /\ IsFiniteSet(Held(ip) \cup {c})
        /\ Cardinality(Held(ip) \cup {c}) \in Nat
        /\ Cardinality(Held(ip)) \in Nat
        /\ Cardinality(Held(ip) \cup {c}) <= Cardinality(Held(ip)) + 1
    <3>1. IsFiniteSet(Held(ip)) /\ Cardinality(Held(ip)) \in Nat
      BY <1>1, FS_CardinalityType
    <3>2. CASE c \in Held(ip)
      <4>1. Held(ip) \cup {c} = Held(ip)
        BY <3>2
      <4>2. /\ IsFiniteSet(Held(ip) \cup {c})
            /\ Cardinality(Held(ip) \cup {c}) = Cardinality(Held(ip))
        BY <3>1, <4>1, Zenon
      <4> QED
        BY <3>1, <4>2
    <3>3. CASE c \notin Held(ip)
      BY <3>1, <3>3, FS_AddElement
    <3> QED
      BY <3>1, <3>2, <3>3
  <2>2. /\ Cardinality(Held(ip)') \in Nat
        /\ Cardinality(Held(ip)') <= Cardinality(Held(ip) \cup {c})
    BY <2>1, SmallerSet
  <2> QED
    BY <1>2, <2>1, <2>2
<1>4. ASSUME NEW ip \in Ips \ S
      PROVE  Cardinality(Held(ip)') <= max_connections_per_ip
  <2>1. /\ Cardinality(Held(ip)') \in Nat
        /\ Cardinality(Held(ip)) \in Nat
        /\ Cardinality(Held(ip)') <= Cardinality(Held(ip))
    BY <1>1, SmallerSet
  <2> QED
    BY <1>2, <2>1 DEF WithinLimit
<1> QED
  BY <1>3, <1>4 DEF WithinLimit

\* Giving slots back keeps every address within its limit.
LEMMA HeldShrinks ==
  ASSUME AdmissionAssumption, TypeOK, TablesAgree, WithinLimit,
         \A ip \in Ips : Held(ip)' \subseteq Held(ip)
  PROVE  WithinLimit'
<1> DEFINE S == {}
<1>1. S \in SUBSET Ips
  OBVIOUS
<1>2. /\ \A ip \in S : Cardinality(Held(ip)) < max_connections_per_ip
      /\ \A ip \in S : Held(ip)' \subseteq Held(ip) \cup {0}
      /\ \A ip \in Ips \ S : Held(ip)' \subseteq Held(ip)
  OBVIOUS
<1> HIDE DEF S
<1> QED
  BY <1>1, <1>2, HeldGrows

\* handle_pending_inbound_connection when admit lets the connection in.
LEMMA AdmitIInv ==
  ASSUME AdmissionAssumption, IInv, NEW c \in Connections, swarm[c] = "new",
         NEW ip \in Ips \cup {NoIp}, admit(c, ip),
         swarm' = [swarm EXCEPT ![c] = "negotiating"],
         admitted' = Insert(admitted, c, [ip |-> ip, time |-> now]),
         UNCHANGED <<established, now>>
  PROVE  IInv'
<1> USE DEF IInv
<1>1. ip \in Ips /\ Cardinality(Held(ip)) < max_connections_per_ip
  BY DEF admit
<1>2. c \notin DOMAIN admitted /\ c \notin DOMAIN pending /\ c \notin DOMAIN established
  BY DEF TablesAgree
<1>3. /\ DOMAIN admitted' = DOMAIN admitted \cup {c}
      /\ admitted'[c] = [ip |-> ip, time |-> now]
      /\ \A d \in DOMAIN admitted : admitted'[d] = admitted[d]
      /\ admitted' \in [DOMAIN admitted' -> Admissions]
      /\ IsFiniteSet(DOMAIN admitted')
  <2>1. DOMAIN admitted' = DOMAIN admitted \cup {c}
    BY DEF Insert
  <2>2. IsFiniteSet(DOMAIN admitted \cup {c})
    BY FS_AddElement DEF TypeOK
  <2> QED
    BY <1>1, <1>2, <2>1, <2>2 DEF Insert, TypeOK, Admissions
<1>4. /\ DOMAIN pending' = DOMAIN pending \cup {c}
      /\ pending'[c] = ip
      /\ \A d \in DOMAIN pending : pending'[d] = pending[d]
      /\ pending' \in [DOMAIN pending' -> Ips]
  BY <1>1, <1>2 DEF admit, Insert, TypeOK
<1> DEFINE n == [Bucket(ip) EXCEPT !.attempts = @ + 1]
<1>5. rate' = Insert(Cleaned(ip), ip, n) /\ Bucket(ip).attempts < attempts_per_minute
  BY DEF admit
<1>6. n \in Buckets
  BY <1>1, BucketCounts DEF Buckets
<1>7. rate' \in [DOMAIN rate' -> Buckets] /\ DOMAIN rate' \subseteq Ips
  <2> HIDE DEF n
  <2> QED
    BY <1>1, <1>5, <1>6, CleanedRemembers DEF Insert, TypeOK
<1>8. TypeOK'
  BY <1>3, <1>4, <1>7 DEF TypeOK
<1>9. TablesAgree'
  BY <1>2, <1>3, <1>4 DEF TypeOK, TablesAgree, AdmissionAssumption
<1>10. WithinLimit'
  <2>1. Held(ip)' \subseteq Held(ip) \cup {c}
    BY <1>4 DEF Held
  <2>2. \A q \in Ips \ {ip} : Held(q)' \subseteq Held(q)
    BY <1>4 DEF Held
  <2>3. /\ {ip} \in SUBSET Ips
        /\ \A q \in {ip} : Cardinality(Held(q)) < max_connections_per_ip
    BY <1>1
  <2>4. \A q \in {ip} : Held(q)' \subseteq Held(q) \cup {c}
    BY <2>1
  <2> QED
    BY <2>2, <2>3, <2>4, HeldGrows
<1>11. /\ Remembers(admitted', now, rate')
       /\ TwoBuckets(admitted')
  <2>1. /\ admitted \in [DOMAIN admitted -> Admissions] /\ IsFiniteSet(DOMAIN admitted)
        /\ now \in Nat /\ \A d \in DOMAIN admitted : admitted[d].time <= now
        /\ TwoBuckets(admitted)
    BY DEF TypeOK, RateAgrees
  <2>2. /\ Remembers(admitted, now, Cleaned(ip))
        /\ Bucket(ip) \in Buckets /\ Counts(admitted, now, ip, Bucket(ip))
        /\ now < Bucket(ip).started + RATE_WINDOW
    BY <1>1, CleanedRemembers, BucketCounts
  <2> QED
    BY <1>1, <1>2, <1>5, <2>1, <2>2, Admitting
<1>12. RateAgrees'
  BY <1>3, <1>11 DEF RateAgrees, TypeOK
<1> QED
  BY <1>8, <1>9, <1>10, <1>12

\* handle_pending_inbound_connection when admit turns it away.
LEMMA DeniedIInv ==
  ASSUME AdmissionAssumption, IInv, NEW c \in Connections, swarm[c] = "new",
         NEW ip \in Ips \cup {NoIp}, denied(ip),
         swarm' = [swarm EXCEPT ![c] = "closed"],
         UNCHANGED <<pending, established, now, admitted>>
  PROVE  IInv'
<1> USE DEF IInv
<1>1. /\ rate' \in [DOMAIN rate' -> Buckets] /\ DOMAIN rate' \subseteq Ips
      /\ Remembers(admitted, now, rate')
  BY DeniedRemembers
<1>2. TypeOK'
  BY <1>1 DEF TypeOK
<1>3. TablesAgree'
  BY DEF TypeOK, TablesAgree
<1>4. WithinLimit'
  BY DEF WithinLimit, Held
<1>5. RateAgrees'
  BY <1>1 DEF RateAgrees
<1> QED
  BY <1>2, <1>3, <1>4, <1>5

\* ConnectionEstablished, inbound or outbound: an inbound one moves from one
\* table to the other, an outbound one was never in either.
LEMMA EstablishedIInv ==
  ASSUME AdmissionAssumption, IInv, NEW c \in Connections \cup Outbound,
         ConnectionEstablished(c)
  PROVE  IInv'
<1> USE DEF IInv
<1>1. UNCHANGED <<rate, now, admitted>>
  BY DEF ConnectionEstablished
<1>2. RateAgrees'
  BY <1>1 DEF RateAgrees
<1>3. CASE c \in DOMAIN pending
  <2>1. /\ c \in Connections /\ swarm[c] = "negotiating"
        /\ swarm' = [swarm EXCEPT ![c] = "open"]
    BY <1>3 DEF ConnectionEstablished, TablesAgree
  <2>2. /\ DOMAIN pending' = DOMAIN pending \ {c}
        /\ \A d \in DOMAIN pending' : pending'[d] = pending[d]
        /\ pending' \in [DOMAIN pending' -> Ips]
    BY <1>3 DEF ConnectionEstablished, Remove, Restrict, TypeOK
  <2>3. /\ DOMAIN established' = DOMAIN established \cup {c}
        /\ established'[c] = pending[c]
        /\ \A d \in DOMAIN established : d # c => established'[d] = established[d]
        /\ established' \in [DOMAIN established' -> Ips]
    BY <1>3 DEF ConnectionEstablished, Insert, TypeOK
  <2>4. TypeOK'
    BY <1>1, <2>1, <2>2, <2>3 DEF TypeOK
  <2>5. TablesAgree'
    BY <1>1, <1>3, <2>1, <2>2, <2>3 DEF TypeOK, TablesAgree
  <2>6. \A ip \in Ips : Held(ip)' \subseteq Held(ip)
    BY <1>3, <2>1, <2>2, <2>3 DEF Held, TablesAgree
  <2>7. WithinLimit'
    BY <2>6, HeldShrinks
  <2> QED
    BY <1>2, <2>4, <2>5, <2>7
<1>4. CASE c \notin DOMAIN pending
  <2>1. /\ c \in Outbound /\ c \notin Connections
        /\ swarm' = [swarm EXCEPT ![c] = "open"]
        /\ UNCHANGED <<pending, established>>
    BY <1>4 DEF ConnectionEstablished, TablesAgree, AdmissionAssumption
  <2>2. TypeOK'
    BY <1>1, <2>1 DEF TypeOK
  <2>3. TablesAgree'
    BY <1>1, <2>1 DEF TypeOK, TablesAgree
  <2>4. WithinLimit'
    BY <2>1 DEF WithinLimit, Held
  <2> QED
    BY <1>2, <2>2, <2>3, <2>4
<1> QED
  BY <1>3, <1>4

\* ListenFailure and ConnectionClosed: whichever table had the connection
\* gives its slot back.
LEMMA ReleaseIInv ==
  ASSUME AdmissionAssumption, IInv, NEW c \in Connections \cup Outbound,
         swarm[c] # "new", swarm' = [swarm EXCEPT ![c] = "closed"],
         release(c), UNCHANGED <<rate, now, admitted>>
  PROVE  IInv'
<1> USE DEF IInv
<1>1. /\ DOMAIN pending' = DOMAIN pending \ {c}
      /\ \A d \in DOMAIN pending' : pending'[d] = pending[d]
      /\ DOMAIN established' = DOMAIN established \ {c}
      /\ \A d \in DOMAIN established' : established'[d] = established[d]
      /\ pending' \in [DOMAIN pending' -> Ips]
      /\ established' \in [DOMAIN established' -> Ips]
  BY DEF release, Remove, Restrict, TypeOK
<1>2. TypeOK'
  BY <1>1 DEF TypeOK
<1>3. TablesAgree'
  BY <1>1 DEF TypeOK, TablesAgree
<1>4. \A ip \in Ips : Held(ip)' \subseteq Held(ip)
  BY <1>1 DEF Held
<1>5. WithinLimit'
  BY <1>4, HeldShrinks
<1>6. RateAgrees'
  BY DEF RateAgrees
<1> QED
  BY <1>2, <1>3, <1>5, <1>6

\* The clock.
LEMMA TickIInv ==
  ASSUME AdmissionAssumption, IInv, Tick
  PROVE  IInv'
<1> USE DEF IInv
<1>1. now' = now + 1 /\ UNCHANGED <<pending, established, rate, swarm, admitted>>
  BY DEF Tick
<1>2. TypeOK'
  BY <1>1 DEF TypeOK
<1>3. TablesAgree' /\ WithinLimit'
  BY <1>1 DEF TablesAgree, WithinLimit, Held
<1>4. Remembers(admitted, now + 1, rate)
  BY TickRemembers DEF TypeOK, RateAgrees
<1>5. RateAgrees'
  <2>1. \A c \in DOMAIN admitted : admitted[c].time <= now + 1
    BY DEF TypeOK, RateAgrees, Admissions
  <2> QED
    BY <1>1, <1>4, <2>1 DEF RateAgrees
<1> QED
  BY <1>2, <1>3, <1>5

\* The tables start empty.
LEMMA InitIInv ==
  ASSUME AdmissionAssumption
  PROVE  Init => IInv
<1> SUFFICES ASSUME Init
             PROVE  IInv
  OBVIOUS
<1>1. /\ DOMAIN pending = {} /\ DOMAIN established = {} /\ DOMAIN rate = {}
      /\ DOMAIN admitted = {} /\ now = 0
  BY DEF Init
<1>2. TypeOK
  <2>1. /\ pending \in [{} -> Ips] /\ established \in [{} -> Ips]
        /\ rate \in [{} -> Buckets] /\ admitted \in [{} -> Admissions]
    BY DEF Init
  <2> QED
    BY <1>1, <2>1, FS_EmptySet DEF Init, TypeOK
<1>3. TablesAgree
  BY <1>1 DEF Init, TablesAgree
<1>4. WithinLimit
  <2>1. \A ip \in Ips : Held(ip) = {}
    BY <1>1 DEF Held
  <2> QED
    BY <2>1, FS_EmptySet DEF WithinLimit, AdmissionAssumption, ValidLimits
<1>5. RateAgrees
  <2>1. \A ip : Of(admitted, ip) = {}
    BY <1>1 DEF Of
  <2>2. \A ip, t : Recent(admitted, ip, t) = {} /\ Window(admitted, ip, t) = {}
    BY <2>1 DEF Recent, Window
  <2>3. attempts_per_minute \in Nat /\ Cardinality({}) = 0
    BY FS_EmptySet DEF AdmissionAssumption, ValidLimits
  <2>4. \A ip \in Ips : Forgotten(admitted, now, ip)
    BY <2>1, <2>2, <2>3 DEF Forgotten
  <2>5. TwoBuckets(admitted)
    BY <2>2, <2>3 DEF TwoBuckets
  <2> QED
    BY <1>1, <2>4, <2>5 DEF RateAgrees, Remembers
<1> QED
  BY <1>2, <1>3, <1>4, <1>5 DEF IInv

\* Every step keeps the invariant.
LEMMA NextIInv ==
  ASSUME AdmissionAssumption
  PROVE  IInv /\ [Next]_vars => IInv'
<1> SUFFICES ASSUME IInv, [Next]_vars
             PROVE  IInv'
  OBVIOUS
<1>1. ASSUME NEW c \in Connections, NEW ip \in Ips \cup {NoIp},
             handle_pending_inbound_connection(c, ip)
      PROVE  IInv'
  BY <1>1, AdmitIInv, DeniedIInv DEF handle_pending_inbound_connection
<1>2. ASSUME NEW c \in Connections \cup Outbound, ConnectionEstablished(c)
      PROVE  IInv'
  BY <1>2, EstablishedIInv
<1>3. ASSUME NEW c \in Connections \cup Outbound, ConnectionClosed(c)
      PROVE  IInv'
  BY <1>3, ReleaseIInv DEF ConnectionClosed
<1>4. ASSUME NEW c \in Connections \cup Outbound, ListenFailure(c)
      PROVE  IInv'
  BY <1>4, ReleaseIInv DEF ListenFailure
<1>5. CASE Tick
  BY <1>5, TickIInv
<1>6. CASE UNCHANGED vars
  BY <1>6 DEF vars, IInv, TypeOK, TablesAgree, WithinLimit, Held, RateAgrees
<1> QED
  BY <1>1, <1>2, <1>3, <1>4, <1>5, <1>6 DEF Next
-----------------------------------------------------------------------------
\* The tables, the limits and the buckets stay as IInv says.
THEOREM Invariance ==
  ASSUME AdmissionAssumption
  PROVE  Spec => []IInv
<1>1. Init => IInv
  BY InitIInv
<1>2. IInv /\ [Next]_vars => IInv'
  BY NextIInv
<1> QED
  BY <1>1, <1>2, PTL DEF Spec

\* The pending and established tables of admission.rs hold exactly the inbound
\* connections that the swarm has, and no address more than
\* max_connections_per_ip of them, for any number of connections and addresses.
THEOREM TablesMatchSwarmAlways ==
  ASSUME AdmissionAssumption
  PROVE  Spec => []TablesMatchSwarm
<1>1. IInv => TablesMatchSwarm
  BY DEF IInv, TablesAgree, WithinLimit, TablesMatchSwarm
<1> QED
  BY <1>1, Invariance, PTL

\* Any RATE_WINDOW sees at most twice attempts_per_minute admissions of an
\* address, whatever addresses fill the table of buckets and have it cleaned.
THEOREM AtMostTwoBucketsAlways ==
  ASSUME AdmissionAssumption
  PROVE  Spec => []AtMostTwoBuckets
<1>1. IInv => AtMostTwoBuckets
  <2> SUFFICES ASSUME IInv, NEW ip \in Ips, NEW start \in 0..MaxTime
               PROVE  Cardinality({c \in DOMAIN admitted :
                        /\ admitted[c].ip = ip
                        /\ admitted[c].time \in start..(start + RATE_WINDOW - 1)})
                        <= 2 * attempts_per_minute
    BY DEF AtMostTwoBuckets
  <2>1. Cardinality(Window(admitted, ip, start)) <= 2 * attempts_per_minute
    BY DEF IInv, RateAgrees, TwoBuckets, AdmissionAssumption
  <2>2. Window(admitted, ip, start) =
          {c \in DOMAIN admitted :
             /\ admitted[c].ip = ip
             /\ admitted[c].time \in start..(start + RATE_WINDOW - 1)}
    BY DEF Window, Of
  <2> QED
    BY <2>1, <2>2
<1> QED
  BY <1>1, Invariance, PTL
=============================================================================
