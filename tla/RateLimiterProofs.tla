------------------------- MODULE RateLimiterProofs -------------------------
(***************************************************************************)
(* The promises of the limiters for any burst, window and number of        *)
(* concurrent requests: a burst is never exceeded, whatever order requests *)
(* get the lock in, and who comes back when told to finds a slot.          *)
(***************************************************************************)
EXTENDS RateLimiter, TLAPS, FiniteSetTheorems, SequenceTheorems, WellFoundedInduction

Instant == 0..MaxTime

Waiting == [pc: Limiter, key: Key, client: Client, now: Instant]

\* A request waits for the lock no longer than MaxSkew after it read the clock.
Timely(caller) == caller # Idle => caller.now <= clock /\ clock <= caller.now + MaxSkew

CallersInv ==
    /\ callers \in [Caller -> {Idle} \cup Waiting]
    /\ \A c \in Caller : Timely(callers[c])

\* A bucket e holds the latest of the admissions a, in the order of the lock;
\* the ones that have left it are a window old.
Holds(k, e, a) ==
    /\ e \in Seq(Instant) /\ a \in Seq(Instant)
    /\ Len(e) <= Burst[k.limiter]
    /\ Len(e) <= Len(a)
    /\ \A i \in 1..Len(e) : e[i] = a[i + (Len(a) - Len(e))]
    /\ \A i \in 1..Len(a) : a[i] <= clock
    /\ \A i \in 1..Len(a) - Len(e) : a[i] + Window <= clock

\* Admissions that are a burst apart in order are a window apart in time, but
\* for the time spent waiting for the lock.
Apart(k, a) ==
    \A i, j \in 1..Len(a) : i + Burst[k.limiter] <= j => a[i] + Window <= a[j] + MaxSkew

BucketsInv ==
    \A k \in Key : Holds(k, entries[k], admitted[k]) /\ Apart(k, admitted[k])

Inv ==
    /\ clock \in Instant
    /\ entries \in [Key -> Seq(Instant)] /\ admitted \in [Key -> Seq(Instant)]
    /\ CallersInv
    /\ BucketsInv

-----------------------------------------------------------------------------

\* A set of numbers that is not empty has a least one.
LEMMA LeastExists ==
    ASSUME NEW T, T \subseteq Nat, T # {}
    PROVE  \E x \in T : \A y \in T : x <= y
<1> DEFINE R == OpToRel(<, Nat)
<1>1. IsWellFoundedOn(R, Nat)
    BY NatLessThanWellFounded
<1>2. \A x, y \in Nat : y < x => <<y, x>> \in R
    BY DEF OpToRel
<1> HIDE DEF R
<1>3. PICK x \in T : \A y \in T : ~(<<y, x>> \in R)
    BY <1>1, WFMin
<1>4. ASSUME NEW y \in T PROVE x <= y
    <2>1. x \in Nat /\ y \in Nat
        OBVIOUS
    <2>2. ~(y < x)
        BY <1>2, <1>3, <2>1, Zenon
    <2> QED
        BY <2>1, <2>2
<1> QED
    BY <1>4

\* The facts about the constants that the arithmetic below uses.
LEMMA Constants ==
    /\ Window \in Nat /\ MaxTime \in Nat /\ MaxSkew \in Nat /\ MaxSkew < Window
    /\ Second \in Nat /\ Second > 0
    /\ \A k \in Key : Burst[k.limiter] \in Nat /\ Burst[k.limiter] > 0
<1>1. \A k \in Key : k.limiter \in Limiter
    BY DEF Key, Limiter
<1> QED
    BY <1>1, BurstAssumption, TimeAssumption

\* What check_and_record pops: a stretch from the front, all a window old.
LEMMA Expired ==
    ASSUME NEW bucket \in Seq(Instant), NEW now \in Nat
    PROVE  \E gone \in 0..Len(bucket) :
              /\ Expire(bucket, now) \in Seq(Instant)
              /\ Len(Expire(bucket, now)) = Len(bucket) - gone
              /\ \A i \in 1..Len(bucket) - gone : Expire(bucket, now)[i] = bucket[i + gone]
              /\ \A i \in 1..gone : bucket[i] + Window <= now
              /\ gone < Len(bucket) => ~(bucket[gone + 1] + Window <= now)
<1> DEFINE fresh == {i \in 1..Len(bucket) : DurationSince(now, bucket[i]) < Window}
           first == IF fresh = {} THEN Len(bucket) + 1
                    ELSE CHOOSE i \in fresh : \A j \in fresh : i <= j
<1>1. Len(bucket) \in Nat /\ \A i \in 1..Len(bucket) : bucket[i] \in Nat
    BY Constants, LenProperties DEF Instant
<1>2. \A i \in 1..Len(bucket) : i \notin fresh <=> bucket[i] + Window <= now
    BY <1>1, Constants DEF DurationSince
<1>3. /\ first \in 1..Len(bucket) + 1
      /\ \A i \in 1..first - 1 : i \in 1..Len(bucket) /\ i \notin fresh
      /\ first <= Len(bucket) => first \in fresh
    <2>1. CASE fresh = {}
        BY <1>1, <2>1
    <2>2. CASE fresh # {}
        <3>1. fresh \subseteq Nat /\ fresh \subseteq 1..Len(bucket)
            BY <1>1
        <3>2. \E x \in fresh : \A y \in fresh : x <= y
            BY <2>2, <3>1, LeastExists
        <3>3. first \in fresh /\ \A y \in fresh : first <= y
            BY <2>2, <3>2
        <3> HIDE DEF fresh, first
        <3> QED
            BY <1>1, <3>1, <3>3
    <2> QED
        BY <2>1, <2>2
<1>4. Expire(bucket, now) = SubSeq(bucket, first, Len(bucket))
    BY DEF Expire
<1> HIDE DEF fresh, first
<1>5. \A i \in first..Len(bucket) : bucket[i] \in Instant
    BY <1>1, <1>3, LenProperties
<1>6. /\ Expire(bucket, now) \in Seq(Instant)
      /\ Len(Expire(bucket, now)) =
            IF first <= Len(bucket) THEN Len(bucket) - first + 1 ELSE 0
      /\ \A i \in 1..Len(bucket) - first + 1 :
            Expire(bucket, now)[i] = bucket[first + i - 1]
    BY <1>1, <1>3, <1>4, <1>5, SubSeqProperties
<1> DEFINE gone == first - 1
<1>7. gone \in 0..Len(bucket) /\ first = gone + 1
    BY <1>1, <1>3
<1> HIDE DEF gone
<1>8. Len(Expire(bucket, now)) = Len(bucket) - gone
    BY <1>1, <1>6, <1>7
<1>9. \A i \in 1..Len(bucket) - gone : Expire(bucket, now)[i] = bucket[i + gone]
    <2> TAKE i \in 1..Len(bucket) - gone
    <2>1. i \in 1..Len(bucket) - first + 1 /\ first + i - 1 = i + gone
        BY <1>1, <1>7
    <2> QED
        BY <1>6, <2>1
<1>10. \A i \in 1..gone : bucket[i] + Window <= now
    BY <1>1, <1>2, <1>3, <1>7
<1>11. gone < Len(bucket) => ~(bucket[gone + 1] + Window <= now)
    BY <1>1, <1>2, <1>3, <1>7
<1> QED
    BY <1>6, <1>7, <1>8, <1>9, <1>10, <1>11

\* Popping leaves a bucket of the latest admissions.
LEMMA HoldsExpired ==
    ASSUME clock \in Instant, NEW k \in Key, NEW e, NEW a, Holds(k, e, a),
           NEW now \in Instant, now <= clock
    PROVE  Holds(k, Expire(e, now), a)
<1> DEFINE b == Expire(e, now)
<1>1. e \in Seq(Instant) /\ a \in Seq(Instant) /\ now \in Nat /\ clock \in Nat
    BY Constants DEF Holds, Instant
<1>2. Len(e) \in Nat /\ Len(a) \in Nat /\ Burst[k.limiter] \in Nat
    BY <1>1, Constants, LenProperties
<1>3. \A i \in 1..Len(a) : a[i] \in Nat
    BY <1>1, Constants, LenProperties DEF Instant
<1>4. PICK gone \in 0..Len(e) :
        /\ b \in Seq(Instant)
        /\ Len(b) = Len(e) - gone
        /\ \A i \in 1..Len(e) - gone : b[i] = e[i + gone]
        /\ \A i \in 1..gone : e[i] + Window <= now
    BY <1>1, Expired
<1> HIDE DEF b
<1>5. Len(b) <= Burst[k.limiter] /\ Len(b) <= Len(a)
    BY <1>2, <1>4 DEF Holds
<1>6. ASSUME NEW i \in 1..Len(b) PROVE b[i] = a[i + (Len(a) - Len(b))]
    <2>1. i + gone \in 1..Len(e) /\ b[i] = e[i + gone]
        BY <1>2, <1>4
    <2>2. e[i + gone] = a[(i + gone) + (Len(a) - Len(e))]
        BY <2>1 DEF Holds
    <2>3. (i + gone) + (Len(a) - Len(e)) = i + (Len(a) - Len(b))
        BY <1>2, <1>4
    <2> QED
        BY <2>1, <2>2, <2>3
<1>7. ASSUME NEW i \in 1..Len(a) - Len(b) PROVE a[i] + Window <= clock
    <2>1. CASE i <= Len(a) - Len(e)
        <3>1. i \in 1..Len(a) - Len(e)
            BY <1>2, <1>4, <2>1
        <3> QED
            BY <3>1 DEF Holds
    <2>2. CASE i > Len(a) - Len(e)
        <3>1. PICK j \in 1..gone : i = j + (Len(a) - Len(e))
            <4>1. i - (Len(a) - Len(e)) \in 1..gone
                BY <1>2, <1>4, <1>5, <2>2
            <4>2. i = (i - (Len(a) - Len(e))) + (Len(a) - Len(e))
                BY <1>2, <1>4, <1>5
            <4> QED
                BY <4>1, <4>2
        <3>2. j \in 1..Len(e) /\ i \in 1..Len(a)
            BY <1>2, <1>4, <1>5
        <3>3. e[j] = a[i] /\ e[j] + Window <= now
            BY <1>4, <3>1, <3>2 DEF Holds
        <3>4. a[i] \in Nat
            BY <1>3, <3>2
        <3> QED
            BY <1>1, <3>3, <3>4, Constants
    <2> QED
        BY <1>2, <1>4, <2>1, <2>2
<1> QED
    BY <1>1, <1>4, <1>5, <1>6, <1>7 DEF Holds, b

\* An admission to a bucket that is not full.
LEMMA HoldsAdmitted ==
    ASSUME clock \in Instant, NEW k \in Key, NEW b, NEW a, Holds(k, b, a), Apart(k, a),
           Admits(k, b), NEW now \in Instant, now <= clock, clock <= now + MaxSkew
    PROVE  Holds(k, Append(b, now), Append(a, now)) /\ Apart(k, Append(a, now))
<1>1. b \in Seq(Instant) /\ a \in Seq(Instant) /\ now \in Nat /\ clock \in Nat
    BY Constants DEF Holds, Instant
<1>2. /\ Len(b) \in Nat /\ Len(a) \in Nat /\ Burst[k.limiter] \in Nat
      /\ Len(b) < Burst[k.limiter] /\ Len(b) <= Len(a)
    BY <1>1, Constants, LenProperties DEF Admits, Holds
<1>3. \A i \in 1..Len(a) : a[i] \in Nat
    BY <1>1, Constants, LenProperties DEF Instant
<1> DEFINE bb == Append(b, now)
           aa == Append(a, now)
<1>4. /\ bb \in Seq(Instant) /\ Len(bb) = Len(b) + 1
      /\ \A i \in 1..Len(b) : bb[i] = b[i]
      /\ bb[Len(b) + 1] = now
    BY <1>1, AppendProperties
<1>5. /\ aa \in Seq(Instant) /\ Len(aa) = Len(a) + 1
      /\ \A i \in 1..Len(a) : aa[i] = a[i]
      /\ aa[Len(a) + 1] = now
    BY <1>1, AppendProperties
<1> HIDE DEF aa, bb
<1>6. Len(bb) <= Burst[k.limiter] /\ Len(bb) <= Len(aa)
    BY <1>2, <1>4, <1>5
<1>7. ASSUME NEW i \in 1..Len(bb) PROVE bb[i] = aa[i + (Len(aa) - Len(bb))]
    <2>1. Len(aa) - Len(bb) = Len(a) - Len(b)
        BY <1>2, <1>4, <1>5
    <2>2. CASE i = Len(b) + 1
        <3>1. i + (Len(a) - Len(b)) = Len(a) + 1
            BY <1>2, <2>2
        <3> QED
            BY <1>4, <1>5, <2>1, <2>2, <3>1
    <2>3. CASE i # Len(b) + 1
        <3>1. i \in 1..Len(b) /\ i + (Len(a) - Len(b)) \in 1..Len(a)
            BY <1>2, <1>4, <2>3
        <3>2. b[i] = a[i + (Len(a) - Len(b))]
            BY <3>1 DEF Holds
        <3> QED
            BY <1>4, <1>5, <2>1, <3>1, <3>2
    <2> QED
        BY <2>2, <2>3
<1>8. ASSUME NEW i \in 1..Len(aa) PROVE aa[i] <= clock
    <2>1. CASE i = Len(a) + 1
        BY <1>5, <2>1
    <2>2. CASE i # Len(a) + 1
        <3>1. i \in 1..Len(a)
            BY <1>2, <1>5, <2>2
        <3> QED
            BY <1>5, <3>1 DEF Holds
    <2> QED
        BY <2>1, <2>2
<1>9. ASSUME NEW i \in 1..Len(aa) - Len(bb) PROVE aa[i] + Window <= clock
    <2>1. i \in 1..Len(a) - Len(b) /\ i \in 1..Len(a)
        BY <1>2, <1>4, <1>5
    <2> QED
        BY <1>5, <2>1 DEF Holds
<1>10. ASSUME NEW i \in 1..Len(aa), NEW j \in 1..Len(aa), i + Burst[k.limiter] <= j
       PROVE  aa[i] + Window <= aa[j] + MaxSkew
    <2>1. i \in 1..Len(a) /\ Burst[k.limiter] > 0
        BY <1>2, <1>5, <1>10
    <2>2. CASE j = Len(a) + 1
        <3>1. i \in 1..Len(a) - Len(b)
            BY <1>2, <1>10, <2>1, <2>2
        <3>2. a[i] + Window <= clock /\ a[i] \in Nat /\ aa[i] = a[i] /\ aa[j] = now
            BY <1>3, <1>5, <2>1, <2>2, <3>1 DEF Holds
        <3> QED
            BY <1>1, <3>2, Constants
    <2>3. CASE j # Len(a) + 1
        <3>1. j \in 1..Len(a)
            BY <1>2, <1>5, <2>3
        <3> QED
            BY <1>5, <1>10, <2>1, <3>1 DEF Apart
    <2> QED
        BY <2>2, <2>3
<1> QED
    BY <1>4, <1>5, <1>6, <1>7, <1>8, <1>9, <1>10 DEF Holds, Apart, aa, bb

-----------------------------------------------------------------------------
\* The invariant is kept.

\* Empty buckets hold the admissions there have been, none.
LEMMA InvInit == Init => Inv
<1> SUFFICES ASSUME Init PROVE Inv
    OBVIOUS
<1>1. << >> \in Seq(Instant) /\ Len(<< >>) = 0
    BY EmptySeq
<1>2. clock \in Instant
    BY Constants DEF Init, Instant
<1>3. CallersInv
    BY DEF Init, CallersInv, Timely
<1>4. ASSUME NEW k \in Key PROVE Holds(k, entries[k], admitted[k]) /\ Apart(k, admitted[k])
    <2>1. entries[k] = << >> /\ admitted[k] = << >>
        BY DEF Init
    <2>2. 0 <= Burst[k.limiter]
        BY Constants
    <2> QED
        BY <1>1, <2>1, <2>2 DEF Holds, Apart
<1> QED
    BY <1>1, <1>2, <1>3, <1>4 DEF Init, Inv, BucketsInv

\* One caller moves to where it may be.
LEMMA CallerMoved ==
    ASSUME CallersInv, UNCHANGED clock, NEW c \in Caller, NEW next \in {Idle} \cup Waiting,
           Timely(next), callers' = [callers EXCEPT ![c] = next]
    PROVE  CallersInv'
<1>1. callers' \in [Caller -> {Idle} \cup Waiting]
    BY DEF CallersInv
<1>2. ASSUME NEW d \in Caller PROVE Timely(callers'[d])
    <2>1. CASE d = c
        BY <2>1 DEF CallersInv
    <2>2. CASE d # c
        BY <2>2 DEF CallersInv
    <2> QED
        BY <2>1, <2>2
<1> QED
    BY <1>1, <1>2 DEF CallersInv, Timely

\* The limiter of one key is consulted.
LEMMA BucketWritten ==
    ASSUME Inv, UNCHANGED clock, NEW k \in Key, NEW e, NEW a,
           Holds(k, e, a), Apart(k, a),
           entries' = [entries EXCEPT ![k] = e], admitted' = [admitted EXCEPT ![k] = a]
    PROVE  /\ entries' \in [Key -> Seq(Instant)] /\ admitted' \in [Key -> Seq(Instant)]
           /\ BucketsInv'
<1>1. e \in Seq(Instant) /\ a \in Seq(Instant)
    BY DEF Holds
<1>2. entries' \in [Key -> Seq(Instant)] /\ admitted' \in [Key -> Seq(Instant)]
    BY <1>1 DEF Inv
<1>3. ASSUME NEW q \in Key PROVE Holds(q, entries'[q], admitted'[q]) /\ Apart(q, admitted'[q])
    <2>1. CASE q = k
        BY <2>1 DEF Inv
    <2>2. CASE q # k
        <3>1. entries'[q] = entries[q] /\ admitted'[q] = admitted[q]
            BY <2>2 DEF Inv
        <3> QED
            BY <3>1 DEF Inv, BucketsInv
    <2> QED
        BY <2>1, <2>2
<1>4. ASSUME NEW q \in Key PROVE Holds(q, entries[q], admitted[q])' /\ Apart(q, admitted[q])'
    <2>1. Holds(q, entries'[q], admitted'[q]) /\ Apart(q, admitted'[q])
        BY <1>3
    <2> QED
        BY <2>1 DEF Holds, Apart
<1>5. BucketsInv'
    BY <1>4 DEF BucketsInv
<1> QED
    BY <1>2, <1>5

\* The request that has the lock.
LEMMA Holder ==
    ASSUME Inv, NEW c \in Caller, callers[c] # Idle
    PROVE  /\ callers[c] \in Waiting
           /\ callers[c].key \in Key /\ callers[c].now \in Instant /\ callers[c].client \in Client
           /\ callers[c].pc \in Limiter
           /\ callers[c].now <= clock /\ clock <= callers[c].now + MaxSkew
<1>1. callers[c] \in Waiting /\ Timely(callers[c])
    BY DEF Inv, CallersInv
<1> QED
    BY <1>1 DEF Waiting, Timely

\* check_and_record keeps buckets and admissions related, admitted or not.
LEMMA CheckStep ==
    ASSUME Inv, NEW c \in Caller, CheckAndRecord(c)
    PROVE  Inv'
<1>1. callers[c] # Idle /\ UNCHANGED clock
    BY DEF CheckAndRecord
<1>2. PICK k \in Key, now \in Instant :
        /\ k = callers[c].key /\ now = callers[c].now
        /\ now <= clock /\ clock <= now + MaxSkew
    BY <1>1, Holder
<1> DEFINE bucket == Expire(entries[k], now)
<1>3. clock \in Instant /\ Holds(k, entries[k], admitted[k]) /\ Apart(k, admitted[k])
    BY DEF Inv, BucketsInv
<1>4. Holds(k, bucket, admitted[k])
    BY <1>2, <1>3, HoldsExpired
<1>5. \/ /\ Admits(k, bucket)
         /\ entries' = [entries EXCEPT ![k] = Append(bucket, now)]
         /\ admitted' = [admitted EXCEPT ![k] = Append(admitted[k], now)]
         /\ Proceed(c)
      \/ /\ entries' = [entries EXCEPT ![k] = bucket]
         /\ callers' = [callers EXCEPT ![c] = Idle]
         /\ UNCHANGED admitted
    BY <1>2 DEF CheckAndRecord
<1> HIDE DEF bucket
<1>6. CASE /\ Admits(k, bucket)
           /\ entries' = [entries EXCEPT ![k] = Append(bucket, now)]
           /\ admitted' = [admitted EXCEPT ![k] = Append(admitted[k], now)]
           /\ Proceed(c)
    <2>1. Holds(k, Append(bucket, now), Append(admitted[k], now))
          /\ Apart(k, Append(admitted[k], now))
        BY <1>2, <1>3, <1>4, <1>6, HoldsAdmitted
    <2>2. /\ entries' \in [Key -> Seq(Instant)] /\ admitted' \in [Key -> Seq(Instant)]
          /\ BucketsInv'
        BY <1>1, <1>6, <2>1, BucketWritten
    <2> DEFINE next == [pc |-> "client_package",
                        key |-> [limiter |-> "client_package", of |-> callers[c].client],
                        client |-> callers[c].client, now |-> clock]
    <2>3. next \in Waiting /\ next.now = clock
        BY <1>1, <1>3, Holder DEF Waiting, Limiter, Key
    <2>4. Timely(next) /\ Timely(Idle)
        BY <1>3, <2>3, Constants DEF Timely, Instant
    <2>5. callers' = [callers EXCEPT ![c] = next] \/ callers' = [callers EXCEPT ![c] = Idle]
        BY <1>6 DEF Proceed, Inv, CallersInv
    <2> HIDE DEF next
    <2>6. CallersInv'
        BY <1>1, <2>3, <2>4, <2>5, CallerMoved DEF Inv
    <2> QED
        BY <1>1, <1>3, <2>2, <2>6 DEF Inv
<1>7. CASE /\ entries' = [entries EXCEPT ![k] = bucket]
           /\ callers' = [callers EXCEPT ![c] = Idle]
           /\ UNCHANGED admitted
    <2>1. admitted' = [admitted EXCEPT ![k] = admitted[k]]
        BY <1>7 DEF Inv
    <2>2. /\ entries' \in [Key -> Seq(Instant)] /\ admitted' \in [Key -> Seq(Instant)]
          /\ BucketsInv'
        BY <1>1, <1>3, <1>4, <1>7, <2>1, BucketWritten
    <2>3. CallersInv'
        BY <1>1, <1>7, CallerMoved DEF Inv, Timely
    <2> QED
        BY <1>1, <1>3, <2>2, <2>3 DEF Inv
<1> QED
    BY <1>5, <1>6, <1>7

\* A request that has read the clock has not waited yet.
LEMMA ArriveStep ==
    ASSUME Inv, NEW c \in Caller, NEW t \in Tenant, NEW client \in Client, Arrive(c, t, client)
    PROVE  Inv'
<1> DEFINE next == [pc |-> "tenant_api", key |-> [limiter |-> "tenant_api", of |-> t],
                    client |-> client, now |-> clock]
<1>1. next \in Waiting /\ next.now = clock
    BY DEF Inv, Waiting, Limiter, Key
<1>2. Timely(next)
    BY <1>1, Constants DEF Timely, Instant, Inv
<1>3. callers' = [callers EXCEPT ![c] = next] /\ UNCHANGED <<clock, entries, admitted>>
    BY DEF Arrive
<1> HIDE DEF next
<1>4. CallersInv'
    BY <1>1, <1>2, <1>3, CallerMoved DEF Inv
<1> QED
    BY <1>3, <1>4 DEF Inv, BucketsInv, Holds, Apart

\* Time passes only while nobody has waited for MaxSkew.
LEMMA TickStep ==
    ASSUME Inv, Tick
    PROVE  Inv'
<1>1. clock \in Nat /\ clock' = clock + 1 /\ clock' \in Instant
    BY Constants DEF Inv, Tick, Instant
<1>2. UNCHANGED <<entries, callers, admitted>>
    BY DEF Tick
<1>3. ASSUME NEW c \in Caller, callers[c] # Idle
      PROVE  callers[c].now <= clock' /\ clock' <= callers[c].now + MaxSkew
    <2>1. callers[c].now \in Nat /\ callers[c].now <= clock
        BY <1>3, Holder, Constants DEF Instant
    <2>2. clock' - callers[c].now <= MaxSkew
        BY <1>3 DEF Tick
    <2> QED
        BY <1>1, <2>1, <2>2, Constants
<1>4. CallersInv'
    BY <1>2, <1>3 DEF Inv, CallersInv, Timely
<1>5. ASSUME NEW k \in Key PROVE Holds(k, entries[k], admitted[k])' /\ Apart(k, admitted[k])'
    <2> DEFINE a == admitted[k]
    <2>1. Holds(k, entries[k], a) /\ Apart(k, a)
        BY DEF Inv, BucketsInv
    <2>2. Len(a) \in Nat /\ Len(entries[k]) \in Nat /\ \A i \in 1..Len(a) : a[i] \in Nat
        BY Constants, LenProperties DEF Inv, Instant
    <2>3. \A i \in 1..Len(a) : a[i] <= clock'
        BY <1>1, <2>1, <2>2 DEF Holds
    <2>4. \A i \in 1..Len(a) - Len(entries[k]) : a[i] + Window <= clock'
        <3> TAKE i \in 1..Len(a) - Len(entries[k])
        <3>1. i \in 1..Len(a)
            BY <2>2
        <3>2. a[i] + Window <= clock /\ a[i] \in Nat
            BY <2>1, <2>2, <3>1 DEF Holds
        <3> QED
            BY <1>1, <3>2, Constants
    <2> QED
        BY <1>2, <2>1, <2>3, <2>4 DEF Holds, Apart
<1> QED
    BY <1>1, <1>2, <1>4, <1>5 DEF Inv, BucketsInv

\* Every step preserves the inductive invariant.
LEMMA InvStep == Inv /\ [Next]_vars => Inv'
<1> SUFFICES ASSUME Inv, [Next]_vars PROVE Inv'
    OBVIOUS
<1>1. CASE UNCHANGED vars
    BY <1>1 DEF vars, Inv, CallersInv, Timely, BucketsInv, Holds, Apart
<1> QED
    BY <1>1, CheckStep, ArriveStep, TickStep DEF Next

-----------------------------------------------------------------------------
\* Theorems.

\* Buckets and admissions are related as Inv says, whatever the order of the lock.
THEOREM Invariance == Spec => []Inv
BY InvInit, InvStep, PTL DEF Spec

\* Every variable stays in its type, and no bucket outgrows its limiter's burst.
THEOREM TypeCorrect == Spec => []TypeOK
<1>1. Inv => TypeOK
    <2> SUFFICES ASSUME Inv PROVE TypeOK
        OBVIOUS
    <2>1. \A k \in Key : Len(entries[k]) <= Burst[k.limiter]
        BY DEF Inv, BucketsInv, Holds
    <2>2. \A c \in Caller : callers[c] = Idle \/ callers[c] \in Waiting
        BY DEF Inv, CallersInv
    <2> QED
        BY <2>1, <2>2 DEF Inv, TypeOK, Waiting, Instant
<1> QED
    BY <1>1, Invariance, PTL

\* Admissions a burst apart leave no room for more than a burst in a window.
LEMMA BurstKept == Inv => BurstBounded
<1> SUFFICES ASSUME Inv, NEW k \in Key, NEW from \in 0..clock
             PROVE  Cardinality({i \in DOMAIN admitted[k] :
                        admitted[k][i] >= from /\ admitted[k][i] < from + Window - MaxSkew})
                        <= Burst[k.limiter]
    BY DEF BurstBounded
<1> DEFINE a == admitted[k]
           burst == Burst[k.limiter]
           S == {i \in DOMAIN a : a[i] >= from /\ a[i] < from + Window - MaxSkew}
<1>1. /\ Apart(k, a) /\ burst \in Nat /\ burst > 0 /\ from \in Nat
      /\ Window \in Nat /\ MaxSkew \in Nat
    BY Constants DEF Inv, BucketsInv, Instant
<1>2. Len(a) \in Nat /\ DOMAIN a = 1..Len(a) /\ \A i \in 1..Len(a) : a[i] \in Nat
    BY Constants, LenProperties DEF Inv, Instant
<1>3. ASSUME NEW i \in S, NEW j \in S PROVE j < i + burst
    <2>1. i \in 1..Len(a) /\ j \in 1..Len(a) /\ a[i] \in Nat /\ a[j] \in Nat
        BY <1>2, <1>3
    <2>2. a[i] >= from /\ a[j] < from + Window - MaxSkew
        BY <1>3
    <2>3. ~(a[i] + Window <= a[j] + MaxSkew)
        BY <1>1, <2>1, <2>2
    <2>4. ~(i + burst <= j)
        BY <1>1, <2>1, <2>3 DEF Apart
    <2> QED
        BY <1>1, <1>2, <2>1, <2>4
<1>4. S \subseteq Nat
    BY <1>2
<1>5. CASE S = {}
    BY <1>1, <1>5, FS_EmptySet
<1>6. CASE S # {}
    <2> HIDE DEF S, burst
    <2>1. PICK least \in S : \A i \in S : least <= i
        BY <1>4, <1>6, LeastExists
    <2>2. least \in Nat /\ least + burst - 1 \in Int /\ least \in Int
        BY <1>1, <1>4
    <2>3. S \subseteq least..least + burst - 1
        BY <1>1, <1>3, <1>4, <2>1, <2>2
    <2>4. /\ IsFiniteSet(least..least + burst - 1)
          /\ Cardinality(least..least + burst - 1) = burst
        <3>1. ~(least > least + burst - 1) /\ (least + burst - 1) - least + 1 = burst
            BY <1>1, <2>2
        <3> QED
            BY <2>2, <3>1, FS_Interval
    <2>5. Cardinality(S) <= burst
        BY <2>3, <2>4, FS_Subset
    <2> QED
        BY <2>5 DEF S, burst
<1> QED
    BY <1>5, <1>6

\* check_and_record admits no more than burst requests in any stretch of the
\* window's length, less the time a request may wait for the lock.
THEOREM BurstNeverExceeded == Spec => []BurstBounded
BY BurstKept, Invariance, PTL

\* Rounding up to whole seconds promises no earlier time.
LEMMA RoundedUp ==
    ASSUME NEW n \in Nat, NEW s \in Nat, s > 0
    PROVE  (n + s - 1) \div s \in Nat /\ s * ((n + s - 1) \div s) >= n
<1> DEFINE m == n + s - 1
           q == m \div s
<1>1. m \in Nat
    OBVIOUS
<1>2. q \in Nat /\ m = s * q + (m % s) /\ m % s < s /\ m % s \in Nat
    BY <1>1
<1>3. s * q >= n
    BY <1>2
<1> QED
    BY <1>2, <1>3

\* The time left of the oldest instant has passed after retry_after_seconds,
\* even for a request that read the clock before that instant.
LEMMA OldestExpires ==
    ASSUME NEW bucket \in Seq(Instant), Len(bucket) > 0, NEW now \in Instant,
           clock \in Instant, now <= clock, bucket[1] <= clock, ~(bucket[1] + Window <= now)
    PROVE  /\ clock + Second * RetryAfter(bucket, now) \in Nat
           /\ bucket[1] + Window <= clock + Second * RetryAfter(bucket, now)
<1> DEFINE head == bucket[1]
           remaining == Window - DurationSince(now, head)
           seconds == (remaining + Second - 1) \div Second
<1>1. Len(bucket) \in Nat /\ head \in Nat /\ now \in Nat /\ clock \in Nat
    BY Constants, LenProperties DEF Instant
<1>2. Head(bucket) = head
    BY <1>1
<1>3. RetryAfter(bucket, now) = IF seconds = 0 THEN 1 ELSE seconds
    BY <1>2 DEF RetryAfter
<1>4. remaining \in Nat /\ head + Window <= clock + remaining
    BY <1>1, Constants DEF DurationSince
<1> HIDE DEF remaining, head
<1>5. seconds \in Nat /\ Second * seconds >= remaining
    BY <1>4, RoundedUp, Constants
<1> HIDE DEF seconds
<1>6. CASE seconds = 0
    <2>1. RetryAfter(bucket, now) = 1 /\ remaining = 0
        BY <1>3, <1>4, <1>5, <1>6, Constants
    <2>2. Second * 1 = Second /\ Second \in Nat
        BY Constants
    <2> QED
        BY <1>1, <1>4, <2>1, <2>2, Constants DEF head
<1>7. CASE seconds # 0
    <2>1. RetryAfter(bucket, now) = seconds
        BY <1>3, <1>7
    <2>2. Second * seconds \in Nat
        BY <1>5, Constants
    <2> QED
        BY <1>1, <1>4, <1>5, <2>1, <2>2, Constants DEF head
<1> QED
    BY <1>6, <1>7

RetryPromise ==
    \A c \in Caller :
        LET k == callers[c].key
            bucket == Expire(entries[k], callers[c].now)
        IN callers[c] # Idle /\ callers'[c] = Idle /\ admitted' = admitted =>
              Admits(k, Expire(entries'[k],
                               clock + Second * RetryAfter(bucket, callers[c].now)))

\* A request that leaves without an admission was rejected by its limiter.
LEMMA Rejected ==
    ASSUME Inv, [Next]_vars, NEW c \in Caller, callers[c] # Idle, callers'[c] = Idle,
           admitted' = admitted
    PROVE  /\ ~Admits(callers[c].key, Expire(entries[callers[c].key], callers[c].now))
           /\ entries' = [entries EXCEPT ![callers[c].key] =
                              Expire(entries[callers[c].key], callers[c].now)]
<1>1. CheckAndRecord(c)
    <2>1. ASSUME NEW d \in Caller, CheckAndRecord(d) PROVE CheckAndRecord(c)
        <3>1. CASE d # c
            <4>1. callers'[c] = callers[c]
                BY <2>1, <3>1 DEF CheckAndRecord, Proceed, Inv, CallersInv
            <4> QED
                BY <4>1
        <3> QED
            BY <2>1, <3>1
    <2>2. ASSUME NEW d \in Caller, NEW t \in Tenant, NEW client \in Client, Arrive(d, t, client)
          PROVE  FALSE
        <3>1. CASE d = c
            BY <2>2, <3>1 DEF Arrive
        <3>2. CASE d # c
            BY <2>2, <3>2 DEF Arrive, Inv, CallersInv
        <3> QED
            BY <3>1, <3>2
    <2> QED
        BY <2>1, <2>2 DEF Next, Tick, vars
<1>2. callers[c].key \in Key /\ callers[c].now \in Instant
    BY Holder
<1>3. ASSUME NEW k \in Key, NEW now \in Instant,
             admitted' = [admitted EXCEPT ![k] = Append(admitted[k], now)]
      PROVE  FALSE
    <2>1. admitted[k] \in Seq(Instant)
        BY DEF Inv
    <2>2. Len(admitted[k]) \in Nat /\ Len(Append(admitted[k], now)) = Len(admitted[k]) + 1
        BY <2>1, AppendProperties, LenProperties
    <2>3. admitted'[k] = Append(admitted[k], now)
        BY <1>3 DEF Inv
    <2> QED
        BY <2>2, <2>3
<1> QED
    BY <1>1, <1>2, <1>3 DEF CheckAndRecord

\* A rejection names a time at which its oldest admission has left the window.
LEMMA RetryStep == Inv /\ [Next]_vars => RetryPromise
<1> SUFFICES ASSUME Inv, [Next]_vars, NEW c \in Caller, callers[c] # Idle, callers'[c] = Idle,
                    admitted' = admitted
             PROVE  Admits(callers[c].key,
                        Expire(entries'[callers[c].key],
                               clock + Second * RetryAfter(
                                   Expire(entries[callers[c].key], callers[c].now),
                                   callers[c].now)))
    BY DEF RetryPromise
<1>1. PICK k \in Key, now \in Instant : k = callers[c].key /\ now = callers[c].now /\ now <= clock
    BY Holder
<1> DEFINE bucket == Expire(entries[k], now)
           later == clock + Second * RetryAfter(bucket, now)
<1>2. ~Admits(k, bucket) /\ entries'[k] = bucket
    BY <1>1, Rejected DEF Inv
<1>3. clock \in Instant /\ Holds(k, entries[k], admitted[k]) /\ entries[k] \in Seq(Instant)
    BY DEF Inv, BucketsInv
<1>4. Holds(k, bucket, admitted[k])
    BY <1>1, <1>3, HoldsExpired
<1>5. /\ bucket \in Seq(Instant) /\ Len(bucket) \in Nat
      /\ Burst[k.limiter] \in Nat /\ Burst[k.limiter] > 0
      /\ Len(bucket) = Burst[k.limiter]
    <2>1. bucket \in Seq(Instant) /\ Len(bucket) <= Burst[k.limiter]
        BY <1>4 DEF Holds
    <2>2. Len(bucket) \in Nat /\ Burst[k.limiter] \in Nat /\ Burst[k.limiter] > 0
        BY <2>1, Constants, LenProperties
    <2>3. ~(Len(bucket) < Burst[k.limiter])
        BY <1>2 DEF Admits
    <2> HIDE DEF bucket
    <2> QED
        BY <2>1, <2>2, <2>3
<1>6. ~(bucket[1] + Window <= now)
    <2>1. now \in Nat /\ Len(entries[k]) \in Nat
        BY <1>3, Constants, LenProperties DEF Instant
    <2>2. PICK gone \in 0..Len(entries[k]) :
            /\ Len(bucket) = Len(entries[k]) - gone
            /\ \A i \in 1..Len(entries[k]) - gone : bucket[i] = entries[k][i + gone]
            /\ gone < Len(entries[k]) => ~(entries[k][gone + 1] + Window <= now)
        BY <1>3, <2>1, Expired
    <2> HIDE DEF bucket
    <2>3. gone < Len(entries[k]) /\ 1 \in 1..Len(entries[k]) - gone /\ 1 + gone = gone + 1
        BY <1>5, <2>1, <2>2
    <2> QED
        BY <2>2, <2>3
<1>7. bucket[1] <= clock
    <2>1. Len(admitted[k]) \in Nat /\ Len(bucket) <= Len(admitted[k])
        BY <1>4, LenProperties DEF Holds
    <2> HIDE DEF bucket
    <2>2. 1 \in 1..Len(bucket) /\ 1 + (Len(admitted[k]) - Len(bucket)) \in 1..Len(admitted[k])
        BY <1>5, <2>1
    <2> QED
        BY <1>4, <2>2 DEF Holds
<1> HIDE DEF bucket
<1>8. later \in Nat /\ bucket[1] + Window <= later
    BY <1>1, <1>3, <1>5, <1>6, <1>7, OldestExpires
<1> HIDE DEF later
<1>9. PICK gone \in 0..Len(bucket) :
        /\ Len(Expire(bucket, later)) = Len(bucket) - gone
        /\ gone < Len(bucket) => ~(bucket[gone + 1] + Window <= later)
    BY <1>5, <1>8, Expired
<1>10. gone > 0
    <2>1. CASE gone = 0
        <3>1. gone < Len(bucket) /\ gone + 1 = 1
            BY <1>5, <2>1
        <3> QED
            BY <1>8, <1>9, <3>1
    <2> QED
        BY <1>5, <2>1
<1>11. Len(Expire(bucket, later)) < Burst[k.limiter]
    BY <1>5, <1>9, <1>10
<1> QED
    BY <1>1, <1>2, <1>11 DEF Admits, bucket, later

\* A client that comes back retry_after_seconds after its rejection finds a
\* free slot if nobody took it meanwhile.
THEOREM RetriesSucceed == Spec => RetryKeepsPromise
<1>1. Inv /\ [Next]_vars => [RetryPromise]_vars
    BY RetryStep
<1>2. Spec => [][RetryPromise]_vars
    BY <1>1, Invariance, PTL DEF Spec
<1> QED
    BY <1>2 DEF RetryKeepsPromise, RetryPromise

=============================================================================
