----------------------------- MODULE QueryCache -----------------------------
(***************************************************************************)
(* The part of TanStack Query (5.96, external) that the clients' caches    *)
(* rest on, under the defaults of packages/core/query-client.ts: staleTime *)
(* is Infinity, so a query is fetched again only when it is invalidated.   *)
(*                                                                         *)
(* A query is [data, stale, fetch, owed]: data is <<>> or <<value>>; fetch *)
(* is <<>> while idle, <<"sent">> until the server has read its answer and *)
(* <<"back", value>> until the answer lands.  owed is a history bit: an    *)
(* invalidation met a fetch that it did not restart, so the answer may     *)
(* predate the change that was announced; or a write met such an answer,   *)
(* which will overwrite it or bring what the write should have changed.    *)
(***************************************************************************)
EXTENDS Naturals, Sequences

Absent == [data |-> <<>>, stale |-> FALSE, fetch |-> <<>>, owed |-> FALSE]

HasData(q) == q.data # <<>>
Idle(q) == q.fetch = <<>>
Sent(q) == q.fetch = <<"sent">>
Back(q) == Len(q.fetch) = 2

(* Nothing is known to be wrong with the query and nothing is on its way.  *)
Settled(q) == HasData(q) /\ Idle(q) /\ ~q.stale

IsQuery(q, isValue(_)) ==
  /\ DOMAIN q = {"data", "stale", "fetch", "owed"} /\ {q.stale, q.owed} \subseteq BOOLEAN
  /\ q.data = <<>> \/ (Len(q.data) = 1 /\ isValue(q.data[1]))
  /\ Idle(q) \/ Sent(q) \/ (Back(q) /\ q.fetch[1] = "back" /\ isValue(q.fetch[2]))

(* setQueryData: the data is replaced and the invalidation flag cleared;   *)
(* a fetch under way is not cancelled.                                     *)
SetData(q, v) == [q EXCEPT !.data = <<v>>, !.stale = FALSE, !.owed = @ \/ Back(q)]

(* setQueryData with an updater that returns undefined for no data.        *)
Patch(q, f(_)) ==
  IF HasData(q) THEN SetData(q, f(q.data[1])) ELSE [q EXCEPT !.owed = @ \/ Back(q)]

Refetch(q) == [q EXCEPT !.fetch = <<"sent">>, !.owed = FALSE]

(* invalidateQueries: an observed query is fetched again, and a fetch      *)
(* under way is restarted if there is data already; without data the call  *)
(* joins that fetch.  A query nobody observes is only flagged.             *)
Invalidate(q, observed) ==
  LET flagged == [q EXCEPT !.stale = TRUE, !.owed = @ \/ Back(q)]
  IN  CASE observed /\ (HasData(q) \/ Idle(q)) -> Refetch([q EXCEPT !.stale = TRUE])
        [] ~observed /\ q = Absent -> q
        [] OTHER -> flagged

(* invalidateQueries with refetchType "none": only the flag.               *)
Flag(q) == IF q = Absent THEN q ELSE [q EXCEPT !.stale = TRUE, !.owed = @ \/ Back(q)]

(* cancelQueries: the fetch is dropped, data and flag stay.                *)
Cancel(q) == [q EXCEPT !.fetch = <<>>, !.owed = FALSE]

(* An observer mounts: what is missing or stale is fetched.                *)
Mount(q) == IF Idle(q) /\ (q.stale \/ ~HasData(q)) THEN Refetch(q) ELSE q

(* The server reads its answer, the answer lands, or the fetch fails for   *)
(* good (retry: 1), which leaves what there is and flags it.               *)
Answer(q, v) == [q EXCEPT !.fetch = <<"back", v>>]
Land(q) == [q EXCEPT !.data = <<q.fetch[2]>>, !.stale = FALSE, !.fetch = <<>>]
Fail(q) == [q EXCEPT !.stale = TRUE, !.fetch = <<>>, !.owed = FALSE]
=============================================================================
