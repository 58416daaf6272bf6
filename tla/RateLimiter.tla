---------------------------- MODULE RateLimiter ----------------------------
(***************************************************************************)
(* The sliding-window limiters in front of the proxy                       *)
(* (services/mosquito-net/src/rate_limit.rs): a request passes the limiter *)
(* of its tenant, then the one of its client.  A limiter reads the clock   *)
(* before it waits for the lock of its buckets, so that requests may enter *)
(* a bucket in another order than the one their instants say.              *)
(***************************************************************************)
EXTENDS Naturals, Sequences, FiniteSets

CONSTANTS
    Caller,      \* requests under way at a time
    Tenant,
    Client,
    Burst,       \* RateLimitConfig.burst of each limiter
    Window,      \* RateLimitConfig.window, in ticks
    Second,      \* ticks of a second
    MaxSkew,     \* bound: ticks a request may wait for the lock
    MaxTime      \* bound of the clock

Limiter == {"tenant_api", "client_package"}
Key == [limiter: {"tenant_api"}, of: Tenant] \cup [limiter: {"client_package"}, of: Client]

ASSUME BurstAssumption == Burst \in [Limiter -> Nat \ {0}]
ASSUME TimeAssumption ==
    /\ Window \in Nat /\ Second \in Nat \ {0} /\ MaxTime \in Nat
    /\ MaxSkew \in Nat /\ MaxSkew < Window

VARIABLES
    clock,
    entries,    \* SlidingWindowBuckets.entries
    callers,    \* where each request is, with the instant it has read
    admitted    \* history: the instants of all admissions of each key

vars == <<clock, entries, callers, admitted>>

-----------------------------------------------------------------------------

\* Instant::duration_since, which saturates.
DurationSince(now, then) == IF now > then THEN now - then ELSE 0

\* The while loop of check_and_record: expired instants are popped from the
\* front, up to the first that is not.
Expire(bucket, now) ==
    LET fresh == {i \in 1..Len(bucket) : DurationSince(now, bucket[i]) < Window}
        first == IF fresh = {} THEN Len(bucket) + 1
                 ELSE CHOOSE i \in fresh : \A j \in fresh : i <= j
    IN SubSeq(bucket, first, Len(bucket))

\* Mutant: parts of a second are cut off.
RetryAfterTruncated(bucket, now) ==
    (Window - DurationSince(now, Head(bucket))) \div Second

\* RateLimitRejection.retry_after_seconds: the time left of the oldest
\* instant, in whole seconds, rounded up and at least one.
RetryAfter(bucket, now) ==
    LET remaining == Window - DurationSince(now, Head(bucket))
        seconds == (remaining + Second - 1) \div Second
    IN IF seconds = 0 THEN 1 ELSE seconds

\* Mutant: one request too many.
AdmitsOneMore(key, bucket) == Len(bucket) <= Burst[key.limiter]

Admits(key, bucket) == Len(bucket) < Burst[key.limiter]

Idle == [pc |-> "idle"]

\* Every variable stays in its type, and no bucket outgrows its limiter's burst.
TypeOK ==
    /\ clock \in 0..MaxTime
    /\ entries \in [Key -> Seq(0..MaxTime)]
    /\ \A k \in Key : Len(entries[k]) <= Burst[k.limiter]
    /\ admitted \in [Key -> Seq(0..MaxTime)]
    /\ \A c \in Caller :
          \/ callers[c] = Idle
          \/ callers[c] \in [pc: Limiter, key: Key, client: Client, now: 0..MaxTime]

Init ==
    /\ clock = 0
    /\ entries = [k \in Key |-> << >>]
    /\ callers = [c \in Caller |-> Idle]
    /\ admitted = [k \in Key |-> << >>]

\* A request reaches check_tenant and reads the clock.
Arrive(c, tenant, client) ==
    /\ callers[c] = Idle
    /\ callers' = [callers EXCEPT ![c] =
          [pc |-> "tenant_api", key |-> [limiter |-> "tenant_api", of |-> tenant],
           client |-> client, now |-> clock]]
    /\ UNCHANGED <<clock, entries, admitted>>

\* What an admitted request does next: check_client, or the proxy itself.
Proceed(c) ==
    callers' = [callers EXCEPT ![c] =
        IF @.pc = "tenant_api"
        THEN [pc |-> "client_package",
              key |-> [limiter |-> "client_package", of |-> @.client],
              client |-> @.client, now |-> clock]
        ELSE Idle]

\* check_and_record under the lock.
CheckAndRecord(c) ==
    LET k == callers[c].key
        now == callers[c].now
        bucket == Expire(entries[k], now)
    IN /\ callers[c] # Idle
       /\ \/ /\ Admits(k, bucket)
             /\ entries' = [entries EXCEPT ![k] = Append(bucket, now)]
             /\ admitted' = [admitted EXCEPT ![k] = Append(@, now)]
             /\ Proceed(c)
          \/ /\ ~Admits(k, bucket)
             /\ entries' = [entries EXCEPT ![k] = bucket]
             /\ callers' = [callers EXCEPT ![c] = Idle]
             /\ UNCHANGED admitted
       /\ UNCHANGED clock

Tick ==
    /\ clock < MaxTime /\ clock' = clock + 1
    /\ \A c \in Caller : callers[c] # Idle => clock' - callers[c].now <= MaxSkew
    /\ UNCHANGED <<entries, callers, admitted>>

Next ==
    \/ \E c \in Caller : CheckAndRecord(c)
    \/ \E c \in Caller, t \in Tenant, client \in Client : Arrive(c, t, client)
    \/ Tick

Spec == Init /\ [][Next]_vars

-----------------------------------------------------------------------------

\* Whatever the order in which requests get the lock, no more than burst of
\* them are admitted in any stretch as long as the window, less the time a
\* request may have waited for the lock (check_and_record).
BurstBounded ==
    \A k \in Key : \A from \in 0..clock :
        Cardinality({i \in DOMAIN admitted[k] :
                        admitted[k][i] >= from /\ admitted[k][i] < from + Window - MaxSkew})
            <= Burst[k.limiter]

\* A client that comes back after retry_after_seconds, counted from the
\* rejection, finds a free slot if nobody took it meanwhile, although its own
\* instant may lie before the ones in the bucket.
RetryKeepsPromise ==
    [][\A c \in Caller :
          LET k == callers[c].key
              bucket == Expire(entries[k], callers[c].now)
          IN callers[c] # Idle /\ callers'[c] = Idle /\ admitted' = admitted =>
                Admits(k, Expire(entries'[k],
                                 clock + Second * RetryAfter(bucket, callers[c].now)))]_vars

=============================================================================
