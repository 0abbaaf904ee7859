--------------------------- MODULE EmptyClaimCache ---------------------------
(***************************************************************************)
(* The cached verdict "this runtime has no queued task" that lets a poll   *)
(* of ClaimTaskForRuntime answer without the database, and the version     *)
(* counter that makes an enqueue take a verdict back: MarkEmpty writes the *)
(* version sampled before the SELECT, IsEmpty believes a verdict only at   *)
(* its own version, and every enqueue bumps the version after its INSERT.  *)
(*                                                                         *)
(* One runtime: the keys of two runtimes never meet.  A step is one Redis  *)
(* call or one statement.  Which queued row a poll claims, and whether     *)
(* another keeps it back, is the matter of TaskQueue.                      *)
(***************************************************************************)
EXTENDS Naturals

CONSTANTS
    Rows,       \* the tasks ever queued for the runtime
    Polls,      \* the claim requests in flight at once
    NoVerdict

ASSUME CacheAssumption == NoVerdict \notin Nat

VARIABLES
    row,        \* "absent", "queued", or "gone": claimed, cancelled, expired
    bump,       \* of the enqueuer of a row: "none", "due", "done" or "lost"
    version,    \* the version key; 0 when it is missing
    verdict,    \* the version written in the empty key; NoVerdict without the key
    poll,       \* where a poll is
    observed    \* the version a poll sampled

cacheVars == <<row, bump, version, verdict, poll, observed>>

Queued == {r \in Rows : row[r] = "queued"}

\* mutant: a verdict is believed whatever its version
IsEmptyUntagged == verdict # NoVerdict

\* IsEmpty: a verdict, and of the current version.
IsEmpty == verdict # NoVerdict /\ verdict = version

CacheInit ==
    /\ row = [r \in Rows |-> "absent"]
    /\ bump = [r \in Rows |-> "none"]
    /\ version = 0
    /\ verdict = NoVerdict
    /\ poll = [p \in Polls |-> "idle"]
    /\ observed = [p \in Polls |-> 0]

-----------------------------------------------------------------------------
(* The enqueue paths: INSERT, then notifyTaskAvailable.                    *)

InsertTask(r) ==
    /\ row[r] = "absent"
    /\ row' = [row EXCEPT ![r] = "queued"]
    /\ bump' = [bump EXCEPT ![r] = "due"]
    /\ UNCHANGED <<version, verdict, poll, observed>>

\* mutant: the enqueue deletes the verdict instead of counting
BumpByDelete(r) ==
    /\ bump[r] = "due"
    /\ bump' = [bump EXCEPT ![r] = "done"]
    /\ verdict' = NoVerdict
    /\ UNCHANGED <<row, version, poll, observed>>

Bump(r) ==
    /\ bump[r] = "due"
    /\ bump' = [bump EXCEPT ![r] = "done"]
    /\ version' = version + 1
    /\ UNCHANGED <<row, verdict, poll, observed>>

\* Redis times out, or the server dies between the INSERT and the INCR.
BumpLost(r) ==
    /\ bump[r] = "due"
    /\ bump' = [bump EXCEPT ![r] = "lost"]
    /\ UNCHANGED <<row, version, verdict, poll, observed>>

\* ReassignTasksToRuntime brings a queued row in, and bumps nothing.
Adopt(r) ==
    /\ row[r] = "absent"
    /\ row' = [row EXCEPT ![r] = "queued"]
    /\ bump' = [bump EXCEPT ![r] = "lost"]
    /\ UNCHANGED <<version, verdict, poll, observed>>

\* Cancelled, expired, or claimed for the agent by a poll of another runtime.
Leave(r) ==
    /\ row[r] = "queued"
    /\ row' = [row EXCEPT ![r] = "gone"]
    /\ UNCHANGED <<bump, version, verdict, poll, observed>>

-----------------------------------------------------------------------------
(* ClaimTaskForRuntime.  A poll the cache answers changes nothing.         *)

Go(p, from, to) == poll[p] = from /\ poll' = [poll EXCEPT ![p] = to]

CacheMiss(p) ==
    /\ ~IsEmpty
    /\ Go(p, "idle", "missed")
    /\ UNCHANGED <<row, bump, version, verdict, observed>>

\* IsEmpty reads "no verdict" from a Redis that does not answer.
CacheError(p) ==
    /\ Go(p, "idle", "missed")
    /\ UNCHANGED <<row, bump, version, verdict, observed>>

\* CurrentVersion; an error reads as version 0.
Sample(p) ==
    /\ Go(p, "missed", "sampled")
    /\ \E v \in {version, 0} : observed' = [observed EXCEPT ![p] = v]
    /\ UNCHANGED <<row, bump, version, verdict>>

\* ListQueuedClaimCandidatesByRuntime.
Select(p) ==
    /\ Go(p, "sampled", IF Queued = {} THEN "empty" ELSE "listed")
    /\ UNCHANGED <<row, bump, version, verdict, observed>>

\* The claim loop takes a row of the runtime, or finds them all taken.
Claim(p) ==
    /\ Go(p, "listed", "idle")
    /\ \/ \E r \in Queued : row' = [row EXCEPT ![r] = "gone"]
       \/ Queued = {} /\ UNCHANGED row
    /\ UNCHANGED <<bump, version, verdict, observed>>

\* mutant: tagged with the version of the write, not of the SELECT
MarkEmptyNow(p) ==
    /\ Go(p, "empty", "idle")
    /\ verdict' = version
    /\ UNCHANGED <<row, bump, version, observed>>

MarkEmpty(p) ==
    /\ Go(p, "empty", "idle")
    /\ verdict' = observed[p]
    /\ UNCHANGED <<row, bump, version, observed>>

MarkEmptyLost(p) ==
    /\ Go(p, "empty", "idle")
    /\ UNCHANGED <<row, bump, version, verdict, observed>>

\* mutant: the verdict is written without a TTL
NeverExpires == FALSE /\ UNCHANGED cacheVars

\* EmptyClaimCacheTTL.  The version key outlives every verdict and every poll
\* by a day, so its own expiry has no step here.
ExpireVerdict ==
    /\ verdict # NoVerdict
    /\ verdict' = NoVerdict
    /\ UNCHANGED <<row, bump, version, poll, observed>>

-----------------------------------------------------------------------------
Poll(p) ==
    \/ CacheMiss(p) \/ CacheError(p) \/ Sample(p) \/ Select(p) \/ Claim(p)
    \/ MarkEmpty(p) \/ MarkEmptyLost(p)

CacheNext ==
    \/ \E r \in Rows : InsertTask(r) \/ Bump(r) \/ BumpLost(r) \/ Adopt(r) \/ Leave(r)
    \/ \E p \in Polls : Poll(p)
    \/ ExpireVerdict

CacheSpec == CacheInit /\ [][CacheNext]_cacheVars

\* The daemon polls for ever and a request that was started ends; a cache that
\* says "empty" makes a poll a step that changes nothing.
Polling ==
    \A p \in Polls : /\ WF_cacheVars(CacheMiss(p))
                     /\ WF_cacheVars(Sample(p) \/ Select(p) \/ Claim(p) \/ MarkEmpty(p))

FairSpec == CacheSpec /\ Polling

\* Redis restarts and forgets both keys, whatever the polls in flight hold.
RedisRestart ==
    /\ version' = 0
    /\ verdict' = NoVerdict
    /\ UNCHANGED <<row, bump, poll, observed>>

LossySpec ==
    CacheInit /\ [][CacheNext \/ RedisRestart]_cacheVars /\ Polling /\ WF_cacheVars(ExpireVerdict)

-----------------------------------------------------------------------------
CacheTypeOK ==
    /\ row \in [Rows -> {"absent", "queued", "gone"}]
    /\ bump \in [Rows -> {"none", "due", "done", "lost"}]
    /\ version \in Nat
    /\ verdict \in Nat \cup {NoVerdict}
    /\ poll \in [Polls -> {"idle", "missed", "sampled", "listed", "empty"}]
    /\ observed \in [Polls -> Nat]

Announced == {r \in Queued : bump[r] = "done"}

\* A poll the cache answers hides no row whose enqueue has bumped the version,
\* however late the MarkEmpty of an earlier poll comes ("never a stalled task").
NoHiddenTask == IsEmpty => Announced = {}

\* An enqueued row leaves the queue without help from the TTL, unless its bump
\* was lost ("claimable on the next call rather than waiting for the TTL").
AnnouncedIsClaimed ==
    \A r \in Rows : (r \in Announced) ~> (row[r] = "gone")

\* Every queued row leaves the queue in the end: lost bumps, adopted rows and a
\* Redis that restarts between a sample and a bump cost one TTL, no more.
QueuedIsClaimed ==
    \A r \in Rows : (row[r] = "queued") ~> (row[r] = "gone")

-----------------------------------------------------------------------------
(* The inductive invariant behind NoHiddenTask: no version is ahead of the *)
(* key, and a poll about to write the current version has seen no row that *)
(* was announced since, because announcing it moved the version on.        *)
VersionsBehind ==
    /\ verdict # NoVerdict => verdict <= version
    /\ \A p \in Polls : observed[p] <= version

EmptySeen ==
    \A p \in Polls : poll[p] = "empty" /\ observed[p] = version => Announced = {}

CacheInv == CacheTypeOK /\ VersionsBehind /\ EmptySeen /\ NoHiddenTask
=============================================================================
