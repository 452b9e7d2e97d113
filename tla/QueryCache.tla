----------------------------- MODULE QueryCache -----------------------------
(***************************************************************************)
(* The server state the single-page client keeps in memory, and how it is  *)
(* brought up to date after a write.  Every screen reads through the query *)
(* cache of lib/tanstack/react-query/query-client.ts (stale after thirty   *)
(* seconds, one retry, no refetch on focus); a handler awaits its mutation *)
(* and then invalidates the queries it believes the write has changed.     *)
(*                                                                         *)
(* The application decides one table, Pages: what each place of the client *)
(* shows and, for each write it offers, what the write changes on the      *)
(* server and which queries its handler invalidates.  The                  *)
(* cache library, modelled from how the client configures it, decides the  *)
(* rest: deduplication, cancellation, refetch of what is watched, reversal *)
(* of a fetch nobody waits for.                                            *)
(*                                                                         *)
(* Entries of the cache do not interact, so a behaviour follows ONE entry  *)
(* and ONE kind of fact in its answer, chosen at the start and kept:       *)
(* what holds of it for every choice holds of all of them together.  Places *)
(* that are the same to the entry are one view of it.                      *)
(***************************************************************************)
EXTENDS Naturals

CONSTANTS
  Query,     \* the requests answers are cached under: one per API path
  Fact,      \* the kinds of server data an answer carries
  Place,     \* a page of the client, alone or with a drawer or modal open
  Pages,     \* what is on the screen of a place, and the writes it offers
  Gap,       \* <<place, query, fact>> known not to be refreshed from there
  Caller     \* the writes that may be under way at once

ASSUME QueryCacheAssumption ==
  /\ DOMAIN Pages = Place
  /\ \A p \in Place :
       /\ Pages[p].shows \subseteq Query \X Fact
       /\ \A w \in Pages[p].writes :
            w.changes \subseteq Fact /\ w.refreshes \subseteq Query

-----------------------------------------------------------------------------
(* What a place is to the entry of query q as far as fact f goes: whether   *)
(* it reads q, and the writes it offers that matter: those that change f    *)
(* while f is on the screen, and those whose handler invalidates q.         *)

Displayed(q, f, p) == <<q, f>> \in Pages[p].shows /\ <<p, q, f>> \notin Gap

Offer(q, f, p, w) == [shown     |-> Displayed(q, f, p) /\ f \in w.changes,
                      refreshes |-> q \in w.refreshes]

View(q, f, p) ==
  [reads  |-> \E shown \in Pages[p].shows : shown[1] = q,
   offers |-> {Offer(q, f, p, w) : w \in Pages[p].writes}]

\* The client as the entry and the fact of a pair see it.
Client(pair) == {View(pair[1], pair[2], p) : p \in Place}

VARIABLES
  views,     \* the places of the client, as the followed entry sees them
  view,      \* where the user is
  watched,   \* the followed entry is observed by a mounted screen
  entry,     \* the followed cache entry
  calls      \* the writes under way, as far as they matter to the entry

vars == <<views, view, watched, entry, calls>>

-----------------------------------------------------------------------------
(* The entry: whether it holds an answer (has), invalidated (invalid) or    *)
(* past the stale time (old); the fetch in flight, asked, or answered by    *)
(* the server and on its way back, or its retry (again); the error of the   *)
(* last fetch (failed); and the debt of the screen: a write made where the  *)
(* fact is displayed has been acknowledged, and the answer held (owed), or  *)
(* the one on its way back (lacks), does not include it.                    *)
Entry == [has : BOOLEAN, invalid : BOOLEAN, old : BOOLEAN,
          fetch : {"idle", "asked", "answered"}, again : BOOLEAN,
          failed : BOOLEAN, owed : BOOLEAN, lacks : BOOLEAN]

Nothing == [has |-> FALSE, invalid |-> FALSE, old |-> FALSE,
            fetch |-> "idle", again |-> FALSE,
            failed |-> FALSE, owed |-> FALSE, lacks |-> FALSE]

Ask(e)  == [e EXCEPT !.fetch = "asked", !.again = FALSE, !.lacks = FALSE]
Drop_KeepsFetching(e) == [e EXCEPT !.fetch = "dropped"]
Drop(e) == [e EXCEPT !.fetch = "idle", !.again = FALSE, !.lacks = FALSE]

\* An observer mounts: it fetches unless the answer held is fresh, and joins
\* the fetch in flight if there is one.
Mount(e) == IF e.fetch = "idle" /\ (~e.has \/ e.invalid \/ e.old)
            THEN Ask(e) ELSE e

\* invalidateQueries: the entry is marked; if it is watched it is fetched
\* again, the fetch in flight being cancelled only if an answer is held.
Invalidate(e) ==
  LET marked == [e EXCEPT !.invalid = TRUE]
  IN  IF watched /\ (e.fetch = "idle" \/ e.has) THEN Ask(marked) ELSE marked

(* A write under way: whether it was made where the fact is displayed,      *)
(* whether its handler invalidates the query, whether the server has        *)
(* committed it, and whether the answer held (missed) and the one on its    *)
(* way back (late) were read before that.                                   *)
Call == [shown : BOOLEAN, refreshes : BOOLEAN, at : {"sent", "committed"},
         missed : BOOLEAN, late : BOOLEAN]
NoCall == [at |-> "none"]

-----------------------------------------------------------------------------
TypeOK ==
  /\ view \in views
  /\ watched \in BOOLEAN
  /\ entry \in Entry
  /\ calls \in [Caller -> Call \cup {NoCall}]

Init ==
  /\ views \in {Client(pair) : pair \in UNION {Pages[p].shows : p \in Place}}
  /\ view \in views
  /\ watched = view.reads
  /\ entry = IF watched THEN Ask(Nothing) ELSE Nothing
  /\ calls = [c \in Caller |-> NoCall]

\* The user goes from one place to another that reads the query, and the
\* observer stays: a drawer opens or closes over its page, a page changes
\* under the shell that reads the entry.
Stay(v) ==
  /\ v # view /\ watched /\ v.reads
  /\ view' = v
  /\ UNCHANGED <<views, watched, entry, calls>>

\* The user goes to a place, or turns the page or filter where they are: the
\* observer unmounts, which aborts the fetch in flight and restores the
\* entry, and another one mounts if the place reads this same entry again.
Move(v) ==
  LET left == IF watched THEN Drop(entry) ELSE entry
  IN  /\ view' = v
      /\ watched' \in IF v.reads THEN BOOLEAN ELSE {FALSE}
      /\ entry' = IF watched' THEN Mount(left) ELSE left
      /\ UNCHANGED <<views, calls>>

\* Thirty seconds pass; an answer held becomes stale, and nothing else.
Age ==
  /\ entry.has /\ ~entry.old
  /\ entry' = [entry EXCEPT !.old = TRUE]
  /\ UNCHANGED <<views, view, watched, calls>>

\* An entry nobody watches is collected.
Forget ==
  /\ ~watched /\ entry # Nothing
  /\ entry' = Nothing
  /\ UNCHANGED <<views, view, watched, calls>>

\* The server reads the answer of the fetch in flight, with every write
\* committed so far ...
Serve ==
  /\ entry.fetch = "asked"
  /\ entry' = [entry EXCEPT !.fetch = "answered"]
  /\ calls' = [c \in Caller |-> IF calls[c] = NoCall THEN NoCall
                                ELSE [calls[c] EXCEPT !.late = FALSE]]
  /\ UNCHANGED <<views, view, watched>>

\* ... which arrives and replaces the one held,
Arrive ==
  /\ entry.fetch = "answered"
  /\ entry' = [Nothing EXCEPT !.has = TRUE, !.owed = entry.lacks]
  /\ calls' = [c \in Caller |-> IF calls[c] = NoCall THEN NoCall
                                ELSE [calls[c] EXCEPT !.missed = @ /\ calls[c].late]]
  /\ UNCHANGED <<views, view, watched>>

\* ... or is lost: one retry, then the error is shown and the answer held
\* stays as it was.
Fail_RetriesForEver ==
  /\ entry.fetch # "idle"
  /\ entry' = [Ask(entry) EXCEPT !.again = TRUE]
  /\ UNCHANGED <<views, view, watched, calls>>
Fail ==
  /\ entry.fetch # "idle"
  /\ entry' = IF entry.again THEN [Drop(entry) EXCEPT !.failed = TRUE]
                             ELSE [Ask(entry) EXCEPT !.again = TRUE]
  /\ UNCHANGED <<views, view, watched, calls>>

\* A handler sends a write offered where the user is.
Send(c, offer) ==
  /\ calls[c] = NoCall
  /\ calls' = [calls EXCEPT ![c] =
       [shown |-> offer.shown /\ watched, refreshes |-> offer.refreshes,
        at |-> "sent", missed |-> FALSE, late |-> FALSE]]
  /\ UNCHANGED <<views, view, watched, entry>>

\* The server commits it: what was read before does not include it.
Commit(c) ==
  /\ calls[c] # NoCall /\ calls[c].at = "sent"
  /\ calls' = [calls EXCEPT ![c] =
       [@ EXCEPT !.at = "committed", !.missed = calls[c].shown,
                 !.late = calls[c].shown /\ entry.fetch = "answered"]]
  /\ UNCHANGED <<views, view, watched, entry>>

\* The write is refused, or its acknowledgement is lost after the commit: the
\* mutation rejects and the handler stops before it invalidates anything.
Reject(c) ==
  /\ calls[c] # NoCall
  /\ calls' = [calls EXCEPT ![c] = NoCall]
  /\ UNCHANGED <<views, view, watched, entry>>

\* The acknowledgement arrives: the handler resumes, whether its screen is
\* still mounted or not, and invalidates its queries.  Nothing is owed of an
\* entry still loading its first answer, which the invalidation joins.
Settle(c) ==
  /\ calls[c] # NoCall /\ calls[c].at = "committed"
  /\ calls' = [calls EXCEPT ![c] = NoCall]
  /\ LET owing == [entry EXCEPT
           !.owed  = @ \/ (entry.has /\ calls[c].missed),
           !.lacks = @ \/ (entry.has /\ calls[c].late
                             /\ entry.fetch = "answered")]
     IN  entry' = IF calls[c].refreshes THEN Invalidate(owing) ELSE owing
  /\ UNCHANGED <<views, view, watched>>

Next ==
  \/ \E v \in views : Stay(v) \/ Move(v)
  \/ Age \/ Forget \/ Serve \/ Arrive \/ Fail
  \/ \E c \in Caller :
       \/ \E offer \in view.offers : Send(c, offer)
       \/ Commit(c) \/ Reject(c) \/ Settle(c)

Spec == Init /\ [][Next]_vars

\* The network and the server answer what they are asked; users, failures and
\* the clock owe nothing.
FairSpec == Spec /\ WF_vars(Serve) /\ WF_vars(Arrive)

-----------------------------------------------------------------------------
\* Once nothing is being fetched, a screen that has not shown an error shows
\* every acknowledged write that was made on a screen displaying the same
\* fact - wherever the user has gone since, however the fetches and other
\* writes interleaved (the invalidations after `await mutateAsync`).
ScreenKeepsUp ==
  (watched /\ entry.fetch = "idle" /\ ~entry.failed) => ~entry.owed

\* When the writes are over, the user stays where the fact is displayed and
\* nothing fails, what is owed gets shown: the refetches end.
Leaves == \E v \in views : Move(v)
Quiet == \A c \in Caller : calls[c] = NoCall
ShownOnceQuiet ==
  (<>[][~Leaves]_vars /\ <>[](Quiet /\ watched /\ ~entry.failed))
    => <>[](~entry.owed)
=============================================================================
