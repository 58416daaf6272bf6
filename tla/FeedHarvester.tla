--------------------------- MODULE FeedHarvester ---------------------------
(* The feed harvester and the freshness the Triage Counter reads from it.    *)
(* A refresh, scheduled or asked for over HTTP, takes the feeds one after    *)
(* the other: it notes the time, obtains the bytes, and writes a snapshot    *)
(* with its records in one transaction.  The first error ends the refresh.   *)
(* Refreshes run concurrently; the latest snapshot of a feed is the one      *)
(* whose transaction began last, which need not be the one that was fetched  *)
(* last.                                                                     *)
(*                                                                           *)
(* Times are ages, cut off at the first age that is not fresh any more; of   *)
(* the beginnings of transactions only the order is kept.                    *)
EXTENDS Integers, Sequences, SequencesExt

CONSTANTS
    Setting,         \* the instances to explore: the sequence FEEDS, the
                     \* refreshes that may be in progress at the same time, and
                     \* those of them that the scheduled task runs: none when
                     \* FEED_HARVESTER_REFRESH_INTERVAL_SECS is 0, the default
    Live,            \* the feeds with a configured URL
    FreshAge         \* FRESH_FEED_MAX_AGE_SECONDS

ASSUME FeedsAssumption ==
    /\ \A s \in Setting : /\ Len(s.feeds) \in Nat \ {0} /\ DOMAIN s.feeds = 1 .. Len(s.feeds)
                          /\ \A i, j \in DOMAIN s.feeds : s.feeds[i] = s.feeds[j] => i = j
    /\ FreshAge \in Nat

VARIABLES
    setting,         \* chosen at the start
    fixture,         \* the file of a feed: "ok", "absent" or "broken"
    live,            \* the URL of a feed: "ok" or "failing"
    database,        \* "up" or "down"
    latest,          \* the snapshot of a feed with the highest created_at
    begun,           \* the refreshes with an open transaction, by its beginning
    refreshes        \* the refreshes in progress

vars == <<setting, fixture, live, database, latest, begun, refreshes>>

Feeds == setting.feeds

Refresh == setting.refresh

Feed == Range(Feeds)

Ages == 0 .. FreshAge + 1

(* A snapshot: its state and last_success_at.  Where the bytes came from and *)
(* when they were obtained is not stored.                                    *)
Snapshot == [state: {"fresh", "degraded", "unavailable"}, success: Ages \cup {-1},
             origin: {"live", "fixture", "none"}, obtained: Ages]

NotYet == [state |-> "none"]

-----------------------------------------------------------------------------
(* load_feed_snapshot_bytes: a live source that fails, or whose payload is   *)
(* not valid, is replaced by the file and the snapshot marked as degraded.   *)
LoadFeedSnapshotBytes(f) ==
    IF f \in Live /\ live[f] = "ok" THEN [state |-> "fresh", origin |-> "live"]
    ELSE IF fixture[f] = "absent" THEN [state |-> "unavailable", origin |-> "none"]
         ELSE [state |-> IF f \in Live THEN "degraded" ELSE "fresh", origin |-> "fixture"]

(* normalized_record_count of bytes that do not parse is an error, which     *)
(* ends the refresh.                                                         *)
Rejected(f) == LoadFeedSnapshotBytes(f).origin = "fixture" /\ fixture[f] = "broken"

Idle == [pc |-> "idle", index |-> 0, noted |-> 0, obtained |-> 0, overtaken |-> FALSE,
         what |-> NotYet]

(* interval.tick or POST /v1/feeds/refresh *)
Begin(r) ==
    /\ refreshes[r].pc = "idle"
    /\ refreshes' = [refreshes EXCEPT ![r] = [Idle EXCEPT !.pc = "note", !.index = 1]]
    /\ UNCHANGED <<setting, fixture, live, database, latest, begun>>

(* A plausible slip: the scheduled task ends with the first failure. *)
AbortForGood(r) ==
    /\ refreshes' = [refreshes EXCEPT ![r] = [Idle EXCEPT !.pc = "ended"]]
    /\ begun' = Remove(begun, r)

(* The error is logged or returned, an open transaction is rolled back, and  *)
(* the schedule goes on.                                                     *)
Abort(r) ==
    /\ refreshes' = [refreshes EXCEPT ![r] = Idle]
    /\ begun' = Remove(begun, r)

(* let now = Utc::now() *)
Note(r) ==
    /\ refreshes[r].pc = "note"
    /\ refreshes' = [refreshes EXCEPT ![r].pc = "fetch", ![r].noted = 0]
    /\ UNCHANGED <<setting, fixture, live, database, latest, begun>>

Fetch(r) ==
    /\ refreshes[r].pc = "fetch"
    /\ LET f == Feeds[refreshes[r].index]
       IN IF Rejected(f) THEN Abort(r)
          ELSE /\ refreshes' = [refreshes EXCEPT
                    ![r].pc = "begin", ![r].obtained = 0, ![r].what = LoadFeedSnapshotBytes(f)]
               /\ UNCHANGED begun
    /\ UNCHANGED <<setting, fixture, live, database, latest>>

(* pool.begin: created_at is the time at which the transaction began. *)
BeginTransaction(r) ==
    /\ refreshes[r].pc = "begin"
    /\ IF database = "up"
       THEN /\ refreshes' = [refreshes EXCEPT ![r].pc = "commit"]
            /\ begun' = Append(begun, r)
       ELSE Abort(r)
    /\ UNCHANGED <<setting, fixture, live, database, latest>>

(* A plausible slip: the success is dated by the commit. *)
SuccessDatedLate(refresh) == IF refresh.what.state = "fresh" THEN 0 ELSE -1

(* last_success_at is the time noted before the fetch. *)
SuccessNoted(refresh) == IF refresh.what.state = "fresh" THEN refresh.noted ELSE -1

Written(refresh) ==
    [state |-> refresh.what.state, success |-> SuccessNoted(refresh),
     origin |-> refresh.what.origin, obtained |-> refresh.obtained]

(* The open transactions for the same feed that began before that of r. *)
Overtakes(r) ==
    {begun[i] : i \in {j \in DOMAIN begun : /\ \E k \in DOMAIN begun : j < k /\ begun[k] = r
                                            /\ refreshes[begun[j]].index = refreshes[r].index}}

(* The snapshot and its records become visible together, or not at all.      *)
(* ORDER BY feed_name, created_at DESC: it is the latest one unless a        *)
(* transaction that began later has been committed before.                   *)
Commit(r) ==
    /\ refreshes[r].pc = "commit"
    /\ IF database = "up"
       THEN /\ latest' = IF refreshes[r].overtaken THEN latest
                         ELSE [latest EXCEPT ![Feeds[refreshes[r].index]] = Written(refreshes[r])]
            /\ refreshes' = [q \in Refresh |->
                    IF q = r
                    THEN IF refreshes[r].index = Len(Feeds) THEN Idle
                         ELSE [Idle EXCEPT !.pc = "note", !.index = refreshes[r].index + 1]
                    ELSE [refreshes[q] EXCEPT !.overtaken = @ \/ q \in Overtakes(r)]]
            /\ begun' = Remove(begun, r)
       ELSE Abort(r) /\ UNCHANGED latest
    /\ UNCHANGED <<setting, fixture, live, database>>

-----------------------------------------------------------------------------
(* Time passes, and the sources and the database change. *)
Older(age) == IF age = FreshAge + 1 THEN age ELSE age + 1

Tick ==
    /\ latest' = [f \in Feed |->
            IF latest[f] = NotYet THEN NotYet
            ELSE [latest[f] EXCEPT !.obtained = Older(@),
                                   !.success = IF @ = -1 THEN @ ELSE Older(@)]]
    /\ refreshes' = [r \in Refresh |->
            CASE refreshes[r].pc \in {"idle", "note"} -> refreshes[r]
              [] refreshes[r].pc = "fetch" -> [refreshes[r] EXCEPT !.noted = Older(@)]
              [] OTHER -> [refreshes[r] EXCEPT !.noted = Older(@), !.obtained = Older(@)]]
    /\ UNCHANGED <<setting, fixture, live, database, begun>>

SourceChanges ==
    /\ \/ \E f \in Feed, s \in {"ok", "absent", "broken"} :
            fixture' = [fixture EXCEPT ![f] = s] /\ UNCHANGED <<live, database>>
       \/ \E f \in Live, s \in {"ok", "failing"} :
            live' = [live EXCEPT ![f] = s] /\ UNCHANGED <<fixture, database>>
       \/ \E s \in {"up", "down"} : database' = s /\ UNCHANGED <<fixture, live>>
    /\ UNCHANGED <<setting, latest, begun, refreshes>>

Step(r) ==
    /\ r \in Refresh
    /\ Begin(r) \/ Note(r) \/ Fetch(r) \/ BeginTransaction(r) \/ Commit(r)

Next == (\E r \in Refresh : Step(r)) \/ Tick \/ SourceChanges

Init ==
    /\ setting \in Setting
    /\ fixture \in [Feed -> {"ok", "absent"}]
    /\ live = [f \in Live |-> "ok"]
    /\ database = "up"
    /\ latest = [f \in Feed |-> NotYet]
    /\ begun = <<>>
    /\ refreshes = [r \in Refresh |-> Idle]

Spec == Init /\ [][Next]_vars

(* The interval of the scheduled task, where there is one, the time limit of *)
(* every fetch and the runtime see to it that it goes on.  Nobody has to ask *)
(* for a refresh over HTTP, or to wait for its end.                          *)
FairSpec ==
    /\ Spec
    /\ \A r \in UNION {s.scheduled : s \in Setting} : WF_vars(r \in setting.scheduled /\ Step(r))
    /\ WF_vars(Tick)

-----------------------------------------------------------------------------
(* load_feed_snapshot_status and feed_snapshot_status_from_records of the    *)
(* Triage Counter.                                                           *)
Missing(f) == latest[f].state \in {"none", "unavailable"}

(* A plausible slip: a snapshot that was fresh once stays fresh. *)
StatusWhateverAge ==
    IF \E f \in Feed : Missing(f) THEN "unavailable"
    ELSE IF \E f \in Feed : latest[f].state = "degraded" THEN "degraded"
         ELSE "fresh"

FeedSnapshotStatus ==
    IF \E f \in Feed : Missing(f) THEN "unavailable"
    ELSE IF \E f \in Feed : latest[f].state = "degraded" THEN "degraded"
         ELSE IF \E f \in Feed : latest[f].success > FreshAge THEN "stale"
              ELSE "fresh"

-----------------------------------------------------------------------------
(* Snapshots and refreshes have the types the code declares. *)
TypeOK ==
    /\ fixture \in [Feed -> {"ok", "absent", "broken"}]
    /\ live \in [Live -> {"ok", "failing"}]
    /\ \A f \in Feed : latest[f] \in Snapshot \cup {NotYet}
    /\ \A r \in Refresh : /\ refreshes[r].pc \in {"idle", "note", "fetch", "begin", "commit"}
                          /\ refreshes[r].index \in 0 .. Len(Feeds)
                          /\ {refreshes[r].noted, refreshes[r].obtained} \subseteq Ages

(* When the Triage Counter binds feed state "fresh", the bytes behind every  *)
(* feed came from the source that is configured for it and were obtained no  *)
(* longer than FreshAge ago, whatever refreshes overtook each other.         *)
FreshIsCurrent ==
    FeedSnapshotStatus = "fresh" =>
        \A f \in Feed : /\ latest[f].obtained <= FreshAge
                        /\ latest[f].origin = IF f \in Live THEN "live" ELSE "fixture"

Usable(f) == IF f \in Live THEN live[f] = "ok" ELSE fixture[f] = "ok"

(* A feed whose configured source stays unusable is noticed: from some time  *)
(* on no decision is bound to feed state "fresh".                            *)
OutageIsNoticed ==
    \A f \in UNION {Range(s.feeds) : s \in Setting} :
        <>[](f \in Feed /\ ~Usable(f)) => <>[](FeedSnapshotStatus # "fresh")

(* With a schedule, when the sources and the database are well again, every  *)
(* feed gets and keeps a fresh snapshot, whatever failed before and whatever *)
(* becomes of refreshes that were asked for over HTTP meanwhile.             *)
RefreshRecovers ==
    <>[](setting.scheduled # {} /\ database = "up" /\ \A f \in Feed : Usable(f))
        => <>[](\A f \in Feed : latest[f].state = "fresh")
=============================================================================
