------------------------ MODULE FeedHarvesterProofs ------------------------
(* Proofs about FeedHarvester, for every sequence of feeds, every set of     *)
(* concurrent refreshes and every limit of freshness.                        *)
(*                                                                           *)
(* What makes a fresh snapshot current is the order of two readings of the   *)
(* clock: the time that is stored as last_success_at is noted before the     *)
(* bytes are obtained, so the bytes are never older than the snapshot says.  *)
(* The invariant carries that through the transaction, together with where   *)
(* bytes that count as fresh came from, while time passes, sources change    *)
(* and refreshes overtake each other.                                        *)
EXTENDS FeedHarvester, TLAPS

(* The source that is configured for a feed. *)
Configured(f) == IF f \in Live THEN "live" ELSE "fixture"

Loaded == [state: {"fresh", "degraded", "unavailable"}, origin: {"live", "fixture", "none"}]

Refreshing ==
    [pc: {"idle", "note", "fetch", "begin", "commit"}, index: 0 .. Len(Feeds),
     noted: Ages, obtained: Ages, overtaken: BOOLEAN, what: Loaded \cup {NotYet}]

TypeInv ==
    /\ setting \in Setting
    /\ fixture \in [Feed -> {"ok", "absent", "broken"}]
    /\ live \in [Live -> {"ok", "failing"}]
    /\ latest \in [Feed -> Snapshot \cup {NotYet}]
    /\ refreshes \in [Refresh -> Refreshing]

(* A refresh in progress is at a feed of the list; what it has obtained is   *)
(* no older than the time it noted, and what it calls fresh came from the    *)
(* configured source.                                                        *)
Carries(r) ==
    /\ refreshes[r].pc # "idle" => refreshes[r].index \in DOMAIN Feeds
    /\ refreshes[r].pc \in {"begin", "commit"} =>
           /\ refreshes[r].what \in Loaded
           /\ refreshes[r].obtained <= refreshes[r].noted
           /\ refreshes[r].what.state = "fresh" =>
                  refreshes[r].what.origin = Configured(Feeds[refreshes[r].index])

(* A snapshot that calls itself fresh says no less than the age of its bytes. *)
Dated(f) ==
    latest[f].state = "fresh" =>
        /\ latest[f].success \in Ages
        /\ latest[f].obtained <= latest[f].success
        /\ latest[f].origin = Configured(f)

FeedsInv == (\A r \in Refresh : Carries(r)) /\ (\A f \in Feed : Dated(f))

Inv == TypeInv /\ FeedsInv

-----------------------------------------------------------------------------
(* The list of feeds is a sequence with at least one feed, and the feeds are *)
(* its members.                                                              *)
LEMMA FeedsListed ==
    ASSUME setting \in Setting
    PROVE  /\ Len(Feeds) \in Nat \ {0}
           /\ DOMAIN Feeds = 1 .. Len(Feeds)
           /\ \A i \in DOMAIN Feeds : Feeds[i] \in Feed
           /\ FreshAge \in Nat
  BY FeedsAssumption DEF Feeds, Feed, Range

(* Ages stay ages as time passes, and keep their order. *)
LEMMA OlderKeepsOrder ==
    ASSUME FreshAge \in Nat, NEW a \in Ages, NEW b \in Ages
    PROVE  /\ Older(a) \in Ages
           /\ a <= b => Older(a) <= Older(b)
  BY DEF Older, Ages

(* What is loaded for a feed is fresh only from its configured source. *)
LEMMA LoadedFromConfigured ==
    ASSUME NEW f
    PROVE  /\ LoadFeedSnapshotBytes(f) \in Loaded
           /\ LoadFeedSnapshotBytes(f).state = "fresh" =>
                  LoadFeedSnapshotBytes(f).origin = Configured(f)
  BY DEF LoadFeedSnapshotBytes, Loaded, Configured

(* An idle refresh is one of the refreshes the program can have. *)
LEMMA IdleTyped ==
    ASSUME setting \in Setting
    PROVE  /\ Idle \in Refreshing
           /\ \A i \in 1 .. Len(Feeds) : [Idle EXCEPT !.pc = "note", !.index = i] \in Refreshing
           /\ Idle.pc = "idle"
  <1>1. Len(Feeds) \in Nat /\ FreshAge \in Nat
    BY FeedsListed
  <1>2. Idle \in Refreshing /\ Idle.pc = "idle"
    BY <1>1 DEF Idle, Refreshing, Ages
  <1>3. ASSUME NEW i \in 1 .. Len(Feeds)
        PROVE  [Idle EXCEPT !.pc = "note", !.index = i] \in Refreshing
    <2>1. i \in 0 .. Len(Feeds)
      BY <1>1
    <2> QED
      BY <1>2, <2>1 DEF Refreshing
  <1> QED
    BY <1>2, <1>3

(* Initially nothing has been fetched. *)
LEMMA InitInv == Init => Inv
  <1> SUFFICES ASSUME Init PROVE Inv
    OBVIOUS
  <1> USE DEF Init
  <1>1. Idle \in Refreshing /\ Idle.pc = "idle"
    BY IdleTyped
  <1>2. TypeInv
    BY <1>1 DEF TypeInv
  <1>3. \A r \in Refresh : Carries(r)
    BY <1>1 DEF Carries
  <1>4. \A f \in Feed : Dated(f)
    BY DEF Dated, NotYet
  <1> QED
    BY <1>2, <1>3, <1>4 DEF Inv, FeedsInv

-----------------------------------------------------------------------------
(* A step that changes one refresh only, to one that carries what it should, *)
(* keeps the invariant.                                                      *)
LEMMA OneRefresh ==
    ASSUME Inv, NEW r \in Refresh, NEW x \in Refreshing,
           refreshes' = [refreshes EXCEPT ![r] = x],
           UNCHANGED <<setting, fixture, live, latest>>,
           x.pc # "idle" => x.index \in DOMAIN Feeds,
           x.pc \in {"begin", "commit"} =>
               /\ x.what \in Loaded
               /\ x.obtained <= x.noted
               /\ x.what.state = "fresh" => x.what.origin = Configured(Feeds[x.index])
    PROVE  Inv'
  <1> USE DEF Inv, TypeInv, FeedsInv
  <1>1. TypeInv'
    BY DEF Feed, Feeds, Refresh, Refreshing
  <1>2. (\A q \in Refresh : Carries(q))'
    <2>1. \A q \in Refresh : refreshes'[q] = IF q = r THEN x ELSE refreshes[q]
      OBVIOUS
    <2> QED
      BY <2>1 DEF Carries, Feeds, Refresh
  <1>3. (\A f \in Feed : Dated(f))'
    BY DEF Dated, Feed, Feeds
  <1> QED
    BY <1>1, <1>2, <1>3

(* A refresh that ends with an error leaves nothing behind. *)
LEMMA AbortInv ==
    ASSUME Inv, NEW r \in Refresh, Abort(r), UNCHANGED <<setting, fixture, live, latest>>
    PROVE  Inv'
  <1>1. Idle \in Refreshing /\ Idle.pc = "idle"
    BY IdleTyped DEF Inv, TypeInv
  <1>2. refreshes' = [refreshes EXCEPT ![r] = Idle]
    BY DEF Abort
  <1> QED
    BY <1>1, <1>2, OneRefresh

(* The invariant is inductive. *)
LEMMA NextInv == Inv /\ [Next]_vars => Inv'
  <1> SUFFICES ASSUME Inv, [Next]_vars PROVE Inv'
    OBVIOUS
  <1>0. /\ setting \in Setting
        /\ refreshes \in [Refresh -> Refreshing]
        /\ latest \in [Feed -> Snapshot \cup {NotYet}]
        /\ \A r \in Refresh : Carries(r)
        /\ \A f \in Feed : Dated(f)
    BY DEF Inv, TypeInv, FeedsInv
  <1>f. /\ Len(Feeds) \in Nat \ {0} /\ DOMAIN Feeds = 1 .. Len(Feeds)
        /\ \A i \in DOMAIN Feeds : Feeds[i] \in Feed
        /\ FreshAge \in Nat /\ 0 \in Ages
    BY <1>0, FeedsListed DEF Ages
  <1>1. CASE UNCHANGED vars
    BY <1>1 DEF vars, Inv, TypeInv, FeedsInv, Carries, Dated, Feed, Feeds, Refresh, Refreshing
  <1>2. ASSUME NEW r \in Refresh, Begin(r) PROVE Inv'
    <2> DEFINE x == [Idle EXCEPT !.pc = "note", !.index = 1]
    <2>0. 1 \in 1 .. Len(Feeds) /\ 1 \in DOMAIN Feeds
      BY <1>f
    <2>1. x \in Refreshing
      BY <1>0, <2>0, IdleTyped
    <2>2. x.pc = "note" /\ x.index = 1
      BY DEF Idle
    <2>3. refreshes' = [refreshes EXCEPT ![r] = x] /\ UNCHANGED <<setting, fixture, live, latest>>
      BY <1>2 DEF Begin
    <2> HIDE DEF x
    <2> QED
      BY <2>0, <2>1, <2>2, <2>3, OneRefresh
  <1>3. ASSUME NEW r \in Refresh, Note(r) PROVE Inv'
    <2> DEFINE x == [refreshes[r] EXCEPT !.pc = "fetch", !.noted = 0]
    <2>1. /\ x \in Refreshing /\ x.pc = "fetch" /\ x.index = refreshes[r].index
      BY <1>0, <1>f DEF Refreshing
    <2>2. refreshes[r].index \in DOMAIN Feeds
      BY <1>0, <1>3 DEF Note, Carries
    <2>3. refreshes' = [refreshes EXCEPT ![r] = x] /\ UNCHANGED <<setting, fixture, live, latest>>
      BY <1>3 DEF Note
    <2> HIDE DEF x
    <2> QED
      BY <2>1, <2>2, <2>3, OneRefresh
  <1>4. ASSUME NEW r \in Refresh, Fetch(r) PROVE Inv'
    <2> DEFINE f == Feeds[refreshes[r].index]
               x == [refreshes[r] EXCEPT !.pc = "begin", !.obtained = 0,
                                         !.what = LoadFeedSnapshotBytes(f)]
    <2>1. UNCHANGED <<setting, fixture, live, latest>>
      BY <1>4 DEF Fetch
    <2>2. CASE Abort(r)
      BY <2>1, <2>2, AbortInv
    <2>3. CASE refreshes' = [refreshes EXCEPT ![r] = x]
      <3>1. refreshes[r] \in Refreshing /\ refreshes[r].index \in DOMAIN Feeds
        BY <1>0, <1>4 DEF Fetch, Carries
      <3>2. /\ LoadFeedSnapshotBytes(f) \in Loaded
            /\ LoadFeedSnapshotBytes(f).state = "fresh" =>
                   LoadFeedSnapshotBytes(f).origin = Configured(f)
        BY LoadedFromConfigured
      <3>3. /\ x \in Refreshing /\ x.index = refreshes[r].index
            /\ x.obtained = 0 /\ x.noted = refreshes[r].noted
            /\ x.what = LoadFeedSnapshotBytes(f)
        BY <3>1, <3>2, <1>f DEF Refreshing
      <3>4. x.obtained <= x.noted
        BY <3>1, <3>3, <1>f DEF Refreshing, Ages
      <3> HIDE DEF x
      <3> QED
        BY <2>1, <2>3, <3>1, <3>2, <3>3, <3>4, OneRefresh
    <2>4. Abort(r) \/ refreshes' = [refreshes EXCEPT ![r] = x]
      BY <1>4 DEF Fetch
    <2> QED
      BY <2>2, <2>3, <2>4
  <1>5. ASSUME NEW r \in Refresh, BeginTransaction(r) PROVE Inv'
    <2> DEFINE x == [refreshes[r] EXCEPT !.pc = "commit"]
    <2>1. UNCHANGED <<setting, fixture, live, latest>>
      BY <1>5 DEF BeginTransaction
    <2>2. CASE Abort(r)
      BY <2>1, <2>2, AbortInv
    <2>3. CASE refreshes' = [refreshes EXCEPT ![r] = x]
      <3>1. refreshes[r] \in Refreshing /\ Carries(r) /\ refreshes[r].pc = "begin"
        BY <1>0, <1>5 DEF BeginTransaction
      <3>2. /\ x \in Refreshing /\ x.index = refreshes[r].index
            /\ x.obtained = refreshes[r].obtained /\ x.noted = refreshes[r].noted
            /\ x.what = refreshes[r].what
        BY <3>1 DEF Refreshing
      <3> HIDE DEF x
      <3> QED
        BY <2>1, <2>3, <3>1, <3>2, OneRefresh DEF Carries
    <2>4. Abort(r) \/ refreshes' = [refreshes EXCEPT ![r] = x]
      BY <1>5 DEF BeginTransaction
    <2> QED
      BY <2>2, <2>3, <2>4
  <1>6. ASSUME NEW r \in Refresh, Commit(r) PROVE Inv'
    <2>1. /\ UNCHANGED <<setting, fixture, live>>
          /\ Feed' = Feed /\ Feeds' = Feeds /\ Refresh' = Refresh /\ Refreshing' = Refreshing
      BY <1>6 DEF Commit, Feed, Feeds, Refresh, Refreshing
    <2>2. CASE Abort(r) /\ UNCHANGED latest
      BY <2>1, <2>2, AbortInv
    <2>3. CASE database = "up"
      <3> DEFINE f == Feeds[refreshes[r].index]
                 next == [Idle EXCEPT !.pc = "note", !.index = refreshes[r].index + 1]
      <3>1. /\ refreshes[r] \in Refreshing /\ Carries(r) /\ refreshes[r].pc = "commit"
            /\ refreshes[r].index \in 1 .. Len(Feeds) /\ f \in Feed
            /\ refreshes[r].what \in Loaded
        BY <1>0, <1>6, <1>f DEF Commit, Carries
      <3>2. /\ Written(refreshes[r]) \in Snapshot
            /\ Written(refreshes[r]).state = "fresh" =>
                  /\ Written(refreshes[r]).success \in Ages
                  /\ Written(refreshes[r]).obtained <= Written(refreshes[r]).success
                  /\ Written(refreshes[r]).origin = Configured(f)
        BY <3>1 DEF Written, SuccessNoted, Snapshot, Loaded, Refreshing, Carries
      <3>3. latest' = IF refreshes[r].overtaken THEN latest
                      ELSE [latest EXCEPT ![f] = Written(refreshes[r])]
        BY <1>6, <2>3 DEF Commit
      <3>4. /\ latest' \in [Feed -> Snapshot \cup {NotYet}]
            /\ \A g \in Feed : latest'[g] = latest[g] \/ (g = f /\ latest'[g] = Written(refreshes[r]))
        BY <1>0, <3>1, <3>2, <3>3
      <3>5. (\A g \in Feed : Dated(g))'
        <4> SUFFICES ASSUME NEW g \in Feed PROVE Dated(g)'
          BY <2>1
        <4> QED
          BY <1>0, <3>2, <3>4 DEF Dated
      <3>6. refreshes' = [q \in Refresh |->
                    IF q = r THEN IF refreshes[r].index = Len(Feeds) THEN Idle ELSE next
                    ELSE [refreshes[q] EXCEPT !.overtaken = @ \/ q \in Overtakes(r)]]
        BY <1>6, <2>3 DEF Commit
      <3>7. ASSUME NEW q \in Refresh PROVE refreshes'[q] \in Refreshing /\ Carries(q)'
        <4>1. CASE q = r /\ refreshes[r].index = Len(Feeds)
          <5>1. refreshes'[q] = Idle
            BY <3>6, <4>1
          <5> QED
            BY <1>0, <5>1, IdleTyped DEF Carries
        <4>2. CASE q = r /\ refreshes[r].index # Len(Feeds)
          <5>1. refreshes'[q] = next
            BY <3>6, <4>2
          <5>2. refreshes[r].index + 1 \in 1 .. Len(Feeds)
            BY <3>1, <4>2, <1>f
          <5>3. next \in Refreshing
            BY <1>0, <5>2, IdleTyped
          <5>4. next.pc = "note" /\ next.index = refreshes[r].index + 1
            BY DEF Idle
          <5> HIDE DEF next
          <5> QED
            BY <1>f, <2>1, <5>1, <5>2, <5>3, <5>4 DEF Carries
        <4>3. CASE q # r
          <5> DEFINE b == refreshes[q].overtaken \/ q \in Overtakes(r)
          <5>1. refreshes'[q] = [refreshes[q] EXCEPT !.overtaken = b]
            BY <3>6, <4>3
          <5>2. b \in BOOLEAN
            OBVIOUS
          <5> HIDE DEF b
          <5>3. refreshes[q] \in Refreshing /\ Carries(q)
            BY <1>0
          <5>4. /\ refreshes'[q] \in Refreshing
                /\ refreshes'[q].pc = refreshes[q].pc /\ refreshes'[q].index = refreshes[q].index
                /\ refreshes'[q].what = refreshes[q].what
                /\ refreshes'[q].noted = refreshes[q].noted
                /\ refreshes'[q].obtained = refreshes[q].obtained
            BY <5>1, <5>2, <5>3 DEF Refreshing
          <5> QED
            BY <2>1, <5>3, <5>4 DEF Carries
        <4> QED
          BY <4>1, <4>2, <4>3
      <3>8. refreshes' \in [Refresh -> Refreshing]
        BY <3>6, <3>7
      <3>9. TypeInv'
        BY <2>1, <3>4, <3>8 DEF Inv, TypeInv
      <3> QED
        BY <2>1, <3>5, <3>7, <3>9 DEF Inv, FeedsInv
    <2>4. database = "up" \/ (Abort(r) /\ UNCHANGED latest)
      BY <1>6 DEF Commit
    <2> QED
      BY <2>2, <2>3, <2>4
  <1>7. CASE Tick
    <2>1. /\ UNCHANGED <<setting, fixture, live>>
          /\ Feed' = Feed /\ Feeds' = Feeds /\ Refresh' = Refresh /\ Refreshing' = Refreshing
      BY <1>7 DEF Tick, Feed, Feeds, Refresh, Refreshing
    <2>2. ASSUME NEW f \in Feed PROVE latest'[f] \in Snapshot \cup {NotYet} /\ Dated(f)'
      <3>1. CASE latest[f] = NotYet
        BY <1>0, <1>7, <3>1 DEF Tick, Dated, NotYet
      <3>2. CASE latest[f] # NotYet
        <4>1. latest[f] \in Snapshot /\ Dated(f)
          BY <1>0, <3>2
        <4>2. latest'[f] = [latest[f] EXCEPT !.obtained = Older(@),
                                             !.success = IF @ = -1 THEN @ ELSE Older(@)]
          BY <1>7, <3>2 DEF Tick
        <4>3. /\ latest'[f].state = latest[f].state /\ latest'[f].origin = latest[f].origin
              /\ latest'[f].obtained = Older(latest[f].obtained)
              /\ latest'[f].success = IF latest[f].success = -1 THEN -1 ELSE Older(latest[f].success)
          BY <4>1, <4>2 DEF Snapshot
        <4>4. latest[f].obtained \in Ages /\ latest[f].success \in Ages \cup {-1}
          BY <4>1 DEF Snapshot
        <4>5. Older(latest[f].obtained) \in Ages
          BY <1>f, <4>4, OlderKeepsOrder
        <4>6. latest[f].success # -1 => /\ latest[f].success \in Ages
                                        /\ Older(latest[f].success) \in Ages
          BY <1>f, <4>4, OlderKeepsOrder
        <4>7. latest'[f] \in Snapshot
          BY <4>1, <4>2, <4>5, <4>6 DEF Snapshot
        <4>8. ASSUME latest[f].state = "fresh"
              PROVE  /\ Older(latest[f].obtained) <= Older(latest[f].success)
                     /\ latest[f].success # -1
          <5>1. latest[f].success \in Ages /\ latest[f].obtained <= latest[f].success
            BY <4>1, <4>8 DEF Dated
          <5>2. Older(latest[f].obtained) <= Older(latest[f].success)
            BY <1>f, <4>4, <5>1, OlderKeepsOrder
          <5> QED
            BY <5>1, <5>2, <1>f DEF Ages
        <4>9. Dated(f)'
          BY <4>1, <4>3, <4>6, <4>8 DEF Dated
        <4> QED
          BY <4>7, <4>9
      <3> QED
        BY <3>1, <3>2
    <2>3. latest' \in [Feed -> Snapshot \cup {NotYet}]
      BY <1>7, <2>2 DEF Tick
    <2>4. ASSUME NEW r \in Refresh PROVE refreshes'[r] \in Refreshing /\ Carries(r)'
      <3>1. /\ refreshes[r] \in Refreshing /\ Carries(r)
            /\ refreshes[r].noted \in Ages /\ refreshes[r].obtained \in Ages
        BY <1>0 DEF Refreshing
      <3>2. /\ Older(refreshes[r].noted) \in Ages /\ Older(refreshes[r].obtained) \in Ages
            /\ refreshes[r].obtained <= refreshes[r].noted =>
                   Older(refreshes[r].obtained) <= Older(refreshes[r].noted)
        BY <1>f, <3>1, OlderKeepsOrder
      <3>3. CASE refreshes[r].pc \in {"idle", "note"}
        <4>1. refreshes'[r] = refreshes[r]
          BY <1>7, <3>3 DEF Tick
        <4> QED
          BY <2>1, <3>1, <4>1 DEF Carries
      <3>4. CASE refreshes[r].pc = "fetch"
        <4>1. refreshes'[r] = [refreshes[r] EXCEPT !.noted = Older(@)]
          BY <1>7, <3>4 DEF Tick
        <4>2. /\ refreshes'[r] \in Refreshing
              /\ refreshes'[r].pc = "fetch" /\ refreshes'[r].index = refreshes[r].index
          BY <3>1, <3>2, <3>4, <4>1 DEF Refreshing
        <4> QED
          BY <2>1, <3>1, <3>4, <4>2 DEF Carries
      <3>5. CASE refreshes[r].pc \in {"begin", "commit"}
        <4>1. refreshes'[r] = [refreshes[r] EXCEPT !.noted = Older(@), !.obtained = Older(@)]
          BY <1>7, <3>5 DEF Tick
        <4>2. /\ refreshes'[r] \in Refreshing
              /\ refreshes'[r].pc = refreshes[r].pc /\ refreshes'[r].index = refreshes[r].index
              /\ refreshes'[r].what = refreshes[r].what
              /\ refreshes'[r].noted = Older(refreshes[r].noted)
              /\ refreshes'[r].obtained = Older(refreshes[r].obtained)
          BY <3>1, <3>2, <4>1 DEF Refreshing
        <4> QED
          BY <2>1, <3>1, <3>2, <3>5, <4>2 DEF Carries
      <3> QED
        BY <3>1, <3>3, <3>4, <3>5 DEF Refreshing
    <2>5. refreshes' \in [Refresh -> Refreshing]
      BY <1>7, <2>4 DEF Tick
    <2>6. TypeInv'
      BY <2>1, <2>3, <2>5 DEF Inv, TypeInv
    <2> QED
      BY <2>1, <2>2, <2>4, <2>6 DEF Inv, FeedsInv
  <1>8. CASE SourceChanges
    <2>1. UNCHANGED <<setting, latest, refreshes>>
      BY <1>8 DEF SourceChanges
    <2>2. /\ fixture' \in [Feed -> {"ok", "absent", "broken"}]
          /\ live' \in [Live -> {"ok", "failing"}]
      BY <1>8 DEF SourceChanges, Inv, TypeInv
    <2> QED
      BY <2>1, <2>2 DEF Inv, TypeInv, FeedsInv, Carries, Dated, Feed, Feeds, Refresh, Refreshing
  <1> QED
    BY <1>1, <1>2, <1>3, <1>4, <1>5, <1>6, <1>7, <1>8 DEF Next, Step

(* The inductive invariant holds of every behaviour of the harvester. *)
THEOREM Invariance == Spec => []Inv
  BY InitInv, NextInv, PTL DEF Spec

(* Snapshots and refreshes have the types the code declares, whatever        *)
(* refresh, error or change of the sources comes between two steps.          *)
THEOREM TypeCorrect == Spec => []TypeOK
  <1>1. Inv => TypeOK
    BY DEF Inv, TypeInv, TypeOK, Refreshing
  <1> QED
    BY <1>1, Invariance, PTL

(* What the feed status of the Triage Counter calls fresh was obtained from  *)
(* the configured source within the limit of freshness, for any number of    *)
(* concurrent refreshes, however their transactions overtake each other.     *)
THEOREM FreshlyObtained == Spec => []FreshIsCurrent
  <1>1. Inv => FreshIsCurrent
    <2> SUFFICES ASSUME Inv, FeedSnapshotStatus = "fresh", NEW f \in Feed
                 PROVE  /\ latest[f].obtained <= FreshAge
                        /\ latest[f].origin = IF f \in Live THEN "live" ELSE "fixture"
      BY DEF FreshIsCurrent
    <2>1. ~Missing(f) /\ latest[f].state # "degraded" /\ ~(latest[f].success > FreshAge)
      BY DEF FeedSnapshotStatus
    <2>2. latest[f] \in Snapshot /\ Dated(f)
      BY <2>1 DEF Inv, TypeInv, FeedsInv, Missing, NotYet
    <2>3. latest[f].state = "fresh"
      BY <2>1, <2>2 DEF Snapshot, Missing
    <2>4. FreshAge \in Nat /\ latest[f].obtained \in Ages
      BY <2>2, FeedsAssumption DEF Snapshot
    <2> QED
      BY <2>1, <2>2, <2>3, <2>4 DEF Dated, Ages, Configured
  <1> QED
    BY <1>1, Invariance, PTL

-----------------------------------------------------------------------------
(* How soon an outage is noticed.  TLC shows that it is noticed eventually   *)
(* (OutageIsNoticed); the age of what still passes for fresh bounds when.    *)

(* Whatever passes for fresh about f, stored or about to be stored, was      *)
(* noted n ago or earlier.                                                   *)
NotedSince(f, n) ==
    /\ f \in Feed /\ latest[f].state = "fresh" => n <= latest[f].success
    /\ \A r \in Refresh :
           /\ refreshes[r].pc \in {"begin", "commit"}
           /\ Feeds[refreshes[r].index] = f
           /\ refreshes[r].what.state = "fresh"
           => n <= refreshes[r].noted

(* What is loaded for a feed whose source is unusable is not fresh. *)
LEMMA UnusableNotFresh ==
    ASSUME TypeInv, NEW f \in Feed, ~Usable(f), ~Rejected(f)
    PROVE  LoadFeedSnapshotBytes(f).state # "fresh"
  BY DEF TypeInv, Usable, Rejected, LoadFeedSnapshotBytes

(* A step of one refresh that stores nothing. *)
LEMMA OneRefreshSince ==
    ASSUME Inv, NEW f, NEW n \in Ages, NotedSince(f, n), NEW r \in Refresh, NEW x,
           refreshes' = [refreshes EXCEPT ![r] = x], UNCHANGED <<setting, latest>>,
           x.pc \in {"begin", "commit"} /\ Feeds[x.index] = f /\ x.what.state = "fresh"
               => n <= x.noted
    PROVE  NotedSince(f, n)'
  <1>1. Feed' = Feed /\ Feeds' = Feeds /\ Refresh' = Refresh
    BY DEF Feed, Feeds, Refresh
  <1>2. \A q \in Refresh : refreshes'[q] = IF q = r THEN x ELSE refreshes[q]
    BY DEF Inv, TypeInv
  <1> QED
    BY <1>1, <1>2 DEF NotedSince

(* While the source of f is unusable, what passes for fresh about it is      *)
(* never renewed: it grows older with every tick, however refreshes, their   *)
(* errors and their transactions interleave.                                 *)
LEMMA OutageAges ==
    ASSUME Inv, [Next]_vars, NEW f \in Feed, NEW n \in Ages, NotedSince(f, n),
           Usable(f) => n = 0
    PROVE  /\ NotedSince(f, n)'
           /\ Tick => NotedSince(f, Older(n))'
  <1>0. /\ setting \in Setting
        /\ refreshes \in [Refresh -> Refreshing]
        /\ latest \in [Feed -> Snapshot \cup {NotYet}]
        /\ \A r \in Refresh : Carries(r)
        /\ \A g \in Feed : Dated(g)
    BY DEF Inv, TypeInv, FeedsInv
  <1>f. /\ Len(Feeds) \in Nat \ {0} /\ DOMAIN Feeds = 1 .. Len(Feeds)
        /\ \A i, j \in DOMAIN Feeds : Feeds[i] = Feeds[j] => i = j
        /\ FreshAge \in Nat /\ Ages \subseteq Nat /\ n \in Nat
    BY <1>0, FeedsListed, FeedsAssumption DEF Ages, Feeds
  <1>i. Idle.pc = "idle"
    BY DEF Idle
  <1>a. ASSUME NEW r \in Refresh, Abort(r), UNCHANGED <<setting, latest>> PROVE NotedSince(f, n)'
    BY <1>a, <1>i, OneRefreshSince DEF Abort
  <1>1. ASSUME NEW r \in Refresh, Begin(r) PROVE NotedSince(f, n)'
    <2> DEFINE x == [Idle EXCEPT !.pc = "note", !.index = 1]
    <2>1. x.pc = "note" /\ refreshes' = [refreshes EXCEPT ![r] = x] /\ UNCHANGED <<setting, latest>>
      BY <1>1 DEF Begin, Idle
    <2> HIDE DEF x
    <2> QED
      BY <2>1, OneRefreshSince
  <1>2. ASSUME NEW r \in Refresh, Note(r) PROVE NotedSince(f, n)'
    <2> DEFINE x == [refreshes[r] EXCEPT !.pc = "fetch", !.noted = 0]
    <2>1. x.pc = "fetch" /\ refreshes' = [refreshes EXCEPT ![r] = x] /\ UNCHANGED <<setting, latest>>
      BY <1>0, <1>2 DEF Note, Refreshing
    <2> HIDE DEF x
    <2> QED
      BY <2>1, OneRefreshSince
  <1>3. ASSUME NEW r \in Refresh, Fetch(r) PROVE NotedSince(f, n)'
    <2> DEFINE g == Feeds[refreshes[r].index]
               x == [refreshes[r] EXCEPT !.pc = "begin", !.obtained = 0,
                                         !.what = LoadFeedSnapshotBytes(g)]
    <2>1. UNCHANGED <<setting, latest>>
      BY <1>3 DEF Fetch
    <2>2. Abort(r) \/ (~Rejected(g) /\ refreshes' = [refreshes EXCEPT ![r] = x])
      BY <1>3 DEF Fetch
    <2>3. CASE ~Rejected(g) /\ refreshes' = [refreshes EXCEPT ![r] = x]
      <3>1. /\ x.index = refreshes[r].index /\ x.noted = refreshes[r].noted
            /\ x.what = LoadFeedSnapshotBytes(g) /\ x.noted \in Ages
        BY <1>0 DEF Refreshing
      <3>2. g = f /\ x.what.state = "fresh" => Usable(f)
        BY <2>3, <3>1, UnusableNotFresh DEF Inv
      <3>3. g = f /\ x.what.state = "fresh" => n <= x.noted
        BY <1>f, <3>1, <3>2
      <3> HIDE DEF x
      <3> QED
        BY <2>1, <2>3, <3>1, <3>3, OneRefreshSince
    <2> QED
      BY <1>a, <2>1, <2>2, <2>3
  <1>4. ASSUME NEW r \in Refresh, BeginTransaction(r) PROVE NotedSince(f, n)'
    <2> DEFINE x == [refreshes[r] EXCEPT !.pc = "commit"]
    <2>1. UNCHANGED <<setting, latest>> /\ refreshes[r].pc = "begin"
      BY <1>4 DEF BeginTransaction
    <2>2. Abort(r) \/ refreshes' = [refreshes EXCEPT ![r] = x]
      BY <1>4 DEF BeginTransaction
    <2>3. CASE refreshes' = [refreshes EXCEPT ![r] = x]
      <3>1. /\ x.index = refreshes[r].index /\ x.noted = refreshes[r].noted
            /\ x.what = refreshes[r].what
        BY <1>0 DEF Refreshing
      <3>2. Feeds[x.index] = f /\ x.what.state = "fresh" => n <= x.noted
        BY <2>1, <3>1 DEF NotedSince
      <3> HIDE DEF x
      <3> QED
        BY <2>1, <2>3, <3>2, OneRefreshSince
    <2> QED
      BY <1>a, <2>1, <2>2, <2>3
  <1>5. ASSUME NEW r \in Refresh, Commit(r) PROVE NotedSince(f, n)'
    <2>1. UNCHANGED setting /\ Feed' = Feed /\ Feeds' = Feeds /\ Refresh' = Refresh
      BY <1>5 DEF Commit, Feed, Feeds, Refresh
    <2>2. CASE database = "up"
      <3> DEFINE g == Feeds[refreshes[r].index]
                 next == [Idle EXCEPT !.pc = "note", !.index = refreshes[r].index + 1]
      <3>1. /\ refreshes[r] \in Refreshing /\ refreshes[r].pc = "commit"
            /\ refreshes[r].what \in Loaded
        BY <1>0, <1>5 DEF Commit, Carries
      <3>2. latest'[f] = latest[f] \/ (g = f /\ latest'[f] = Written(refreshes[r]))
        BY <1>0, <1>5, <2>2 DEF Commit
      <3>3. g = f /\ Written(refreshes[r]).state = "fresh" => n <= Written(refreshes[r]).success
        BY <3>1 DEF Written, SuccessNoted, NotedSince
      <3>4. latest'[f].state = "fresh" => n <= latest'[f].success
        BY <3>2, <3>3 DEF NotedSince
      <3>5. refreshes' = [q \in Refresh |->
                    IF q = r THEN IF refreshes[r].index = Len(Feeds) THEN Idle ELSE next
                    ELSE [refreshes[q] EXCEPT !.overtaken = @ \/ q \in Overtakes(r)]]
        BY <1>5, <2>2 DEF Commit
      <3>6. ASSUME NEW q \in Refresh, refreshes'[q].pc \in {"begin", "commit"},
                   Feeds[refreshes'[q].index] = f, refreshes'[q].what.state = "fresh"
            PROVE  n <= refreshes'[q].noted
        <4>1. q # r
          <5>1. next.pc = "note"
            BY DEF Idle
          <5> QED
            BY <1>i, <3>5, <3>6, <5>1
        <4> DEFINE b == refreshes[q].overtaken \/ q \in Overtakes(r)
        <4>2. refreshes'[q] = [refreshes[q] EXCEPT !.overtaken = b]
          BY <3>5, <4>1
        <4> HIDE DEF b
        <4>3. refreshes[q] \in Refreshing
          BY <1>0
        <4>4. /\ refreshes'[q].pc = refreshes[q].pc /\ refreshes'[q].index = refreshes[q].index
              /\ refreshes'[q].what = refreshes[q].what
              /\ refreshes'[q].noted = refreshes[q].noted
          BY <4>2, <4>3 DEF Refreshing
        <4> QED
          BY <3>6, <4>4 DEF NotedSince
      <3> QED
        BY <2>1, <3>4, <3>6 DEF NotedSince
    <2>3. CASE Abort(r) /\ UNCHANGED latest
      BY <1>a, <2>1, <2>3
    <2> QED
      BY <1>5, <2>2, <2>3 DEF Commit
  <1>6. ASSUME Tick PROVE NotedSince(f, n)' /\ NotedSince(f, Older(n))'
    <2>1. UNCHANGED setting /\ Feed' = Feed /\ Feeds' = Feeds /\ Refresh' = Refresh
      BY <1>6 DEF Tick, Feed, Feeds, Refresh
    <2>2. n <= Older(n) /\ Older(n) \in Nat
      BY <1>f DEF Older
    <2>3. ASSUME latest'[f].state = "fresh" PROVE Older(n) <= latest'[f].success
      <3>1. latest[f] \in Snapshot
        BY <1>0, <1>6, <2>3 DEF Tick, NotYet
      <3>n. latest[f] # NotYet
        BY <1>6, <2>3 DEF Tick, NotYet
      <3>2. latest'[f] = [latest[f] EXCEPT !.obtained = Older(@),
                                           !.success = IF @ = -1 THEN @ ELSE Older(@)]
        BY <1>6, <3>n DEF Tick
      <3>3. /\ latest'[f].state = latest[f].state
            /\ latest'[f].success = IF latest[f].success = -1 THEN -1 ELSE Older(latest[f].success)
        BY <3>1, <3>2 DEF Snapshot
      <3>4. latest[f].success \in Ages /\ n <= latest[f].success
        BY <1>0, <2>3, <3>3 DEF Dated, NotedSince
      <3>5. Older(n) <= Older(latest[f].success)
        BY <1>f, <3>4, OlderKeepsOrder
      <3> QED
        BY <1>f, <3>3, <3>4, <3>5
    <2>4. ASSUME NEW r \in Refresh, refreshes'[r].pc \in {"begin", "commit"},
                 Feeds[refreshes'[r].index] = f, refreshes'[r].what.state = "fresh"
          PROVE  Older(n) <= refreshes'[r].noted
      <3>1. refreshes[r] \in Refreshing
        BY <1>0
      <3>2. refreshes[r].pc \in {"begin", "commit"}
        BY <1>6, <2>4, <3>1 DEF Tick, Refreshing
      <3>3. refreshes'[r] = [refreshes[r] EXCEPT !.noted = Older(@), !.obtained = Older(@)]
        BY <1>6, <3>2 DEF Tick
      <3>4. /\ refreshes'[r].index = refreshes[r].index /\ refreshes'[r].what = refreshes[r].what
            /\ refreshes'[r].noted = Older(refreshes[r].noted) /\ refreshes[r].noted \in Ages
        BY <3>1, <3>3 DEF Refreshing
      <3>5. n <= refreshes[r].noted
        BY <2>4, <3>2, <3>4 DEF NotedSince
      <3> QED
        BY <1>f, <3>4, <3>5, OlderKeepsOrder
    <2>5. latest'[f].state = "fresh" => latest'[f].success \in Int
      <3>1. CASE latest[f] = NotYet
        BY <1>6, <3>1 DEF Tick, NotYet
      <3>2. CASE latest[f] # NotYet
        <4>1. latest[f] \in Snapshot
          BY <1>0, <3>2
        <4>2. latest'[f].success = IF latest[f].success = -1 THEN -1 ELSE Older(latest[f].success)
          BY <1>6, <3>2, <4>1 DEF Tick, Snapshot
        <4> QED
          BY <1>f, <4>1, <4>2 DEF Snapshot, Older, Ages
      <3> QED
        BY <3>1, <3>2
    <2>6. ASSUME NEW r \in Refresh PROVE refreshes'[r].noted \in Int
      <3>1. refreshes[r] \in Refreshing
        BY <1>0
      <3>2. refreshes'[r].noted \in {refreshes[r].noted, Older(refreshes[r].noted)}
        BY <1>6, <3>1 DEF Tick, Refreshing
      <3> QED
        BY <1>f, <3>1, <3>2 DEF Refreshing, Older, Ages
    <2>7. NotedSince(f, Older(n))'
      BY <2>1, <2>3, <2>4 DEF NotedSince, Older
    <2>8. NotedSince(f, n)'
      BY <1>f, <2>1, <2>2, <2>3, <2>4, <2>5, <2>6 DEF NotedSince
    <2> QED
      BY <2>7, <2>8
  <1>7. ASSUME SourceChanges \/ UNCHANGED vars PROVE NotedSince(f, n)'
    BY <1>7 DEF SourceChanges, vars, NotedSince, Feed, Feeds, Refresh
  <1> QED
    BY <1>1, <1>2, <1>3, <1>4, <1>5, <1>6, <1>7 DEF Next, Step

(* A history variable: how long the source of a feed has been unusable by    *)
(* now, up to the first age that is not fresh any more.                      *)
VARIABLE outage

Lasts(f) ==
    outage' = IF f \in Feed' /\ Usable(f)' THEN 0
              ELSE IF Tick THEN Older(outage) ELSE outage

OutageOf(f) == outage = 0 /\ [][Lasts(f)]_<<vars, outage>>

(* The inductive invariant: nothing passes for fresh that was noted later    *)
(* than the beginning of the outage.                                         *)
OutageInv(f) ==
    /\ outage \in Ages
    /\ f \in Feed /\ Usable(f) => outage = 0
    /\ f \in Feed => NotedSince(f, outage)

(* The history variable and the harvester take a step. *)
LEMMA NextOutage ==
    ASSUME Inv, NEW f, OutageInv(f), [Next]_vars, [Lasts(f)]_<<vars, outage>>
    PROVE  OutageInv(f)'
  <1>1. PICK n \in Ages : n = outage
    BY DEF OutageInv
  <1>2. FreshAge \in Nat /\ Ages \subseteq Nat /\ 0 \in Ages /\ Older(n) \in Ages
    BY FeedsAssumption, OlderKeepsOrder DEF Ages
  <1>3. setting' = setting /\ Feed' = Feed
    BY DEF Next, Step, Begin, Note, Fetch, BeginTransaction, Commit, Tick, SourceChanges, vars,
       Feed, Feeds
  <1>4. CASE f \notin Feed
    BY <1>1, <1>2, <1>3, <1>4 DEF OutageInv, Lasts
  <1>5. CASE f \in Feed
    <2>1. /\ NotedSince(f, n)'
          /\ Tick => NotedSince(f, Older(n))'
      BY <1>1, <1>5, OutageAges DEF OutageInv
    <2>2. NotedSince(f, 0)'
      <3>1. Inv'
        BY NextInv
      <3>2. /\ f \in Feed' => Dated(f)'
            /\ \A r \in Refresh' : refreshes'[r].noted \in Ages
        BY <3>1 DEF Inv, TypeInv, FeedsInv, Refreshing
      <3>3. \A a \in Ages : 0 <= a
        BY <1>2
      <3>4. f \in Feed' /\ latest'[f].state = "fresh" => latest'[f].success \in Ages
        BY <3>2 DEF Dated
      <3> QED
        BY <3>2, <3>3, <3>4 DEF NotedSince
    <2>3. CASE Usable(f)'
      <3>1. outage' = 0
        <4>1. CASE UNCHANGED <<vars, outage>>
          <5>1. outage' = outage /\ live' = live /\ fixture' = fixture
            BY <4>1 DEF vars
          <5> QED
            BY <1>5, <2>3, <5>1 DEF OutageInv, Usable
        <4>2. CASE Lasts(f)
          BY <1>3, <1>5, <2>3, <4>2 DEF Lasts
        <4> QED
          BY <4>1, <4>2
      <3> QED
        BY <1>2, <2>2, <3>1 DEF OutageInv, NotedSince
    <2>4. CASE ~Usable(f)'
      <3>1. outage' = n \/ (Tick /\ outage' = Older(n))
        BY <1>1, <2>4 DEF Lasts
      <3> QED
        BY <1>2, <2>1, <2>4, <3>1 DEF OutageInv, NotedSince
    <2> QED
      BY <2>3, <2>4
  <1> QED
    BY <1>4, <1>5

(* A feed whose configured source has been unusable for longer than the      *)
(* limit of freshness is never bound as "fresh": however many refreshes are  *)
(* under way, overtake each other or fail, and whether or not any of them    *)
(* takes another step.                                                       *)
THEOREM OutageNoticedInTime ==
    ASSUME NEW f
    PROVE  Spec /\ OutageOf(f) =>
               [](f \in Feed /\ outage > FreshAge => FeedSnapshotStatus # "fresh")
  <1> DEFINE I == OutageInv(f)
             Noticed == f \in Feed /\ outage > FreshAge => FeedSnapshotStatus # "fresh"
             Counts == Lasts(f)
  <1>1. Init /\ outage = 0 => I
    <2> SUFFICES ASSUME Init, outage = 0 PROVE I
      OBVIOUS
    <2>1. 0 \in Ages
      BY FeedsAssumption DEF Ages
    <2>2. f \in Feed => latest[f].state # "fresh"
      BY DEF Init, NotYet
    <2>3. \A r \in Refresh : refreshes[r].pc = "idle"
      BY DEF Init, Idle
    <2> QED
      BY <2>1, <2>2, <2>3 DEF OutageInv, NotedSince
  <1>2. Inv /\ I /\ [Next]_vars /\ [Counts]_<<vars, outage>> => I'
    BY NextOutage
  <1>3. Inv /\ I => Noticed
    <2> SUFFICES ASSUME Inv, I, f \in Feed, outage > FreshAge, FeedSnapshotStatus = "fresh"
                 PROVE  FALSE
      OBVIOUS
    <2>1. ~Missing(f) /\ latest[f].state # "degraded" /\ ~(latest[f].success > FreshAge)
      BY DEF FeedSnapshotStatus
    <2>2. latest[f] \in Snapshot /\ Dated(f)
      BY <2>1 DEF Inv, TypeInv, FeedsInv, Missing, NotYet
    <2>3. latest[f].state = "fresh" /\ latest[f].success \in Ages
      BY <2>1, <2>2 DEF Snapshot, Missing, Dated
    <2>4. outage <= latest[f].success /\ outage \in Ages
      BY <2>3 DEF OutageInv, NotedSince
    <2> QED
      BY <2>1, <2>3, <2>4, FeedsAssumption DEF Ages
  <1> HIDE DEF I, Noticed, Counts
  <1>4. Init /\ [][Next]_vars /\ []Inv /\ outage = 0 /\ [][Counts]_<<vars, outage>> => []Noticed
    BY <1>1, <1>2, <1>3, PTL
  <1>5. Spec => []Inv
    BY Invariance
  <1>6. Spec /\ outage = 0 /\ [][Counts]_<<vars, outage>> => []Noticed
    BY <1>4, <1>5, PTL DEF Spec
  <1> QED
    BY <1>6 DEF OutageOf, Counts, Noticed

-----------------------------------------------------------------------------
(* Every feed has a fresh snapshot, and no refresh is about to replace one   *)
(* by another.                                                               *)
Recovered ==
    /\ \A f \in Feed : latest[f].state = "fresh"
    /\ \A r \in Refresh :
           refreshes[r].pc \in {"begin", "commit"} => refreshes[r].what.state = "fresh"

(* As long as every source is usable, no refresh loses what was recovered,   *)
(* whether its transaction commits, fails or is overtaken.                   *)
LEMMA NextRecovered ==
    ASSUME Inv, \A f \in Feed : Usable(f), Recovered, [Next]_vars
    PROVE  Recovered'
  <1>0. /\ setting \in Setting
        /\ refreshes \in [Refresh -> Refreshing]
        /\ latest \in [Feed -> Snapshot \cup {NotYet}]
        /\ \A r \in Refresh : Carries(r)
        /\ \A i \in DOMAIN Feeds : Feeds[i] \in Feed
    BY FeedsListed DEF Inv, TypeInv, FeedsInv
  <1>i. Idle.pc = "idle" /\ \A k : [Idle EXCEPT !.pc = "note", !.index = k].pc = "note"
    BY DEF Idle
  <1>s. setting' = setting /\ Feed' = Feed /\ Feeds' = Feeds /\ Refresh' = Refresh
    BY DEF Next, Step, Begin, Note, Fetch, BeginTransaction, Commit, Tick, SourceChanges, vars,
       Feed, Feeds, Refresh
  (* A step of one refresh. *)
  <1>a. ASSUME NEW r \in Refresh, NEW x, refreshes' = [refreshes EXCEPT ![r] = x],
               x.pc \in {"begin", "commit"} => x.what.state = "fresh",
               UNCHANGED latest
        PROVE  Recovered'
    BY <1>0, <1>a, <1>s DEF Recovered
  <1>b. ASSUME NEW r \in Refresh, Abort(r), UNCHANGED latest PROVE Recovered'
    BY <1>a, <1>b, <1>i DEF Abort
  <1>1. ASSUME NEW r \in Refresh, Begin(r) PROVE Recovered'
    BY <1>1, <1>a, <1>i DEF Begin
  <1>2. ASSUME NEW r \in Refresh, Note(r) PROVE Recovered'
    <2>1. [refreshes[r] EXCEPT !.pc = "fetch", !.noted = 0].pc = "fetch"
      BY <1>0 DEF Refreshing
    <2> QED
      BY <1>2, <1>a, <2>1 DEF Note
  <1>3. ASSUME NEW r \in Refresh, Fetch(r) PROVE Recovered'
    <2> DEFINE f == Feeds[refreshes[r].index]
               x == [refreshes[r] EXCEPT !.pc = "begin", !.obtained = 0,
                                         !.what = LoadFeedSnapshotBytes(f)]
    <2>1. UNCHANGED latest /\ (Abort(r) \/ refreshes' = [refreshes EXCEPT ![r] = x])
      BY <1>3 DEF Fetch
    <2>2. f \in Feed /\ Usable(f)
      BY <1>0, <1>3 DEF Fetch, Carries
    <2>3. LoadFeedSnapshotBytes(f).state = "fresh"
      BY <2>2 DEF Usable, LoadFeedSnapshotBytes
    <2>4. x.what.state = "fresh"
      BY <1>0, <2>3 DEF Refreshing
    <2> HIDE DEF x
    <2> QED
      BY <1>a, <1>b, <2>1, <2>4
  <1>4. ASSUME NEW r \in Refresh, BeginTransaction(r) PROVE Recovered'
    <2> DEFINE x == [refreshes[r] EXCEPT !.pc = "commit"]
    <2>1. UNCHANGED latest /\ (Abort(r) \/ refreshes' = [refreshes EXCEPT ![r] = x])
      BY <1>4 DEF BeginTransaction
    <2>2. x.what.state = "fresh"
      BY <1>0, <1>4 DEF Recovered, BeginTransaction, Refreshing
    <2> HIDE DEF x
    <2> QED
      BY <1>a, <1>b, <2>1, <2>2
  <1>5. ASSUME NEW r \in Refresh, Commit(r) PROVE Recovered'
    <2>1. CASE database = "up"
      <3> DEFINE next == [Idle EXCEPT !.pc = "note", !.index = refreshes[r].index + 1]
      <3>1. \A f \in Feed : latest'[f] = latest[f] \/ latest'[f] = Written(refreshes[r])
        BY <1>0, <1>5, <2>1 DEF Commit
      <3>2. Written(refreshes[r]).state = "fresh"
        BY <1>5 DEF Written, Commit, Recovered
      <3>3. refreshes' = [q \in Refresh |->
                    IF q = r THEN IF refreshes[r].index = Len(Feeds) THEN Idle ELSE next
                    ELSE [refreshes[q] EXCEPT !.overtaken = @ \/ q \in Overtakes(r)]]
        BY <1>5, <2>1 DEF Commit
      <3>4. ASSUME NEW q \in Refresh, refreshes'[q].pc \in {"begin", "commit"}
            PROVE  refreshes'[q].what.state = "fresh"
        <4>1. q # r
          BY <1>i, <3>3, <3>4
        <4> DEFINE b == refreshes[q].overtaken \/ q \in Overtakes(r)
        <4>2. refreshes'[q] = [refreshes[q] EXCEPT !.overtaken = b]
          BY <3>3, <4>1
        <4> HIDE DEF b
        <4>3. refreshes'[q].pc = refreshes[q].pc /\ refreshes'[q].what = refreshes[q].what
          BY <1>0, <4>2 DEF Refreshing
        <4> QED
          BY <3>4, <4>3 DEF Recovered
      <3> QED
        BY <1>s, <3>1, <3>2, <3>4 DEF Recovered
    <2>2. CASE Abort(r) /\ UNCHANGED latest
      BY <1>b, <2>2
    <2> QED
      BY <1>5, <2>1, <2>2 DEF Commit
  <1>6. CASE Tick
    <2>1. ASSUME NEW f \in Feed PROVE latest'[f].state = "fresh"
      <3>1. latest[f].state = "fresh" /\ latest[f] # NotYet /\ latest[f] \in Snapshot
        BY <1>0 DEF Recovered, NotYet
      <3>2. latest'[f] = [latest[f] EXCEPT !.obtained = Older(@),
                                           !.success = IF @ = -1 THEN @ ELSE Older(@)]
        BY <1>6, <3>1 DEF Tick
      <3> QED
        BY <3>1, <3>2 DEF Snapshot
    <2>2. ASSUME NEW r \in Refresh
          PROVE  refreshes'[r].pc = refreshes[r].pc /\ refreshes'[r].what = refreshes[r].what
      <3>1. refreshes[r] \in Refreshing
        BY <1>0
      <3> QED
        BY <1>6, <3>1 DEF Tick, Refreshing
    <2> QED
      BY <1>s, <2>1, <2>2 DEF Recovered
  <1>7. CASE SourceChanges \/ UNCHANGED vars
    BY <1>7, <1>s DEF SourceChanges, vars, Recovered
  <1> QED
    BY <1>1, <1>2, <1>3, <1>4, <1>5, <1>6, <1>7 DEF Next, Step

(* What RefreshRecovers promises to last does last: once every feed has a    *)
(* fresh snapshot and no refresh carries anything else, every feed keeps a   *)
(* fresh snapshot as long as the sources stay usable -- also when the        *)
(* database fails again and transactions overtake each other.                *)
THEOREM RecoveryLasts ==
    Spec /\ [](\A f \in Feed : Usable(f)) =>
        [](Recovered => [](\A f \in Feed : latest[f].state = "fresh"))
  <1> DEFINE Well == \A f \in Feed : Usable(f)
             Fresh == \A f \in Feed : latest[f].state = "fresh"
  <1>1. Inv /\ Well /\ Recovered /\ [Next]_vars => Recovered'
    BY NextRecovered
  <1>2. Recovered => Fresh
    BY DEF Recovered
  <1>3. Spec => []Inv
    BY Invariance
  <1> HIDE DEF Well, Fresh
  <1>4. Spec /\ []Well => [](Recovered => []Fresh)
    BY <1>1, <1>2, <1>3, PTL DEF Spec
  <1> QED
    BY <1>4 DEF Well, Fresh

=============================================================================
