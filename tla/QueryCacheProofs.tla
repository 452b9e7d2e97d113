-------------------------- MODULE QueryCacheProofs --------------------------
(***************************************************************************)
(* What a page has to declare for its screen to keep up.  If the handler   *)
(* of every write refreshes what its page displays of the facts the write  *)
(* changes (Covered), then no interleaving of navigation, fetches,         *)
(* retries, failures and concurrent writes leaves a quiet screen behind an *)
(* acknowledged write: whatever the pages, queries and facts are.          *)
(***************************************************************************)
EXTENDS QueryCache, TLAPS

\* The tables give no page a write whose facts it displays from a query the
\* handler leaves alone, but for the gaps.
Covered ==
  \A p \in Place : \A shown \in Pages[p].shows, w \in Pages[p].writes :
    shown[2] \in w.changes =>
      \/ shown[1] \in w.refreshes
      \/ <<p, shown[1], shown[2]>> \in Gap

OfferType == [shown : BOOLEAN, refreshes : BOOLEAN]
ViewType == [reads : BOOLEAN, offers : SUBSET OfferType]

TypeInv == TypeOK /\ views \subseteq ViewType

\* A write made where the fact is displayed refreshes it.
Refreshed ==
  /\ \A v \in views : \A offer \in v.offers : offer.shown => offer.refreshes
  /\ \A c \in Caller : calls[c] # NoCall =>
       /\ calls[c].shown => calls[c].refreshes
       /\ calls[c].missed \/ calls[c].late => calls[c].shown

\* Only a watched entry is being fetched; what is owed is marked invalid, and
\* an invalid entry that is watched is being fetched unless its fetch failed;
\* the answer on its way back is always good.
Marked ==
  /\ entry.fetch # "idle" => watched
  /\ entry.owed => entry.invalid
  /\ ~entry.lacks
  /\ (watched /\ entry.invalid /\ entry.fetch = "idle") => entry.failed

KeepsUpInv == TypeInv /\ Refreshed /\ Marked

-----------------------------------------------------------------------------
(* The operators on entries return entries. *)

LEMMA EntryOperators ==
  ASSUME NEW e \in Entry
  PROVE  /\ Ask(e) \in Entry /\ Drop(e) \in Entry /\ Mount(e) \in Entry
         /\ Nothing \in Entry
BY DEF Ask, Drop, Mount, Nothing, Entry

LEMMA InvalidateType ==
  ASSUME NEW e \in Entry, watched \in BOOLEAN
  PROVE  Invalidate(e) \in Entry
BY DEF Invalidate, Ask, Entry

LEMMA NoCallIsNone == NoCall \notin Call
BY DEF NoCall, Call

LEMMA ViewTyped ==
  ASSUME NEW q, NEW f, NEW p \in Place
  PROVE  View(q, f, p) \in ViewType
<1>1. ASSUME NEW w PROVE Offer(q, f, p, w) \in OfferType
  <2>1. (Displayed(q, f, p) /\ f \in w.changes) \in BOOLEAN
    OBVIOUS
  <2>2. (q \in w.refreshes) \in BOOLEAN
    OBVIOUS
  <2> QED
    BY <2>1, <2>2 DEF Offer, OfferType
<1>2. {Offer(q, f, p, w) : w \in Pages[p].writes} \in SUBSET OfferType
  BY <1>1
<1>3. (\E shown \in Pages[p].shows : shown[1] = q) \in BOOLEAN
  OBVIOUS
<1> QED
  BY <1>2, <1>3 DEF View, ViewType

-----------------------------------------------------------------------------
LEMMA TypeInit == Init => TypeInv
<1> SUFFICES ASSUME Init PROVE TypeInv
  OBVIOUS
<1>1. views \subseteq ViewType
  BY ViewTyped DEF Init, Client
<1>2. view \in ViewType /\ view \in views
  BY <1>1 DEF Init
<1>3. watched \in BOOLEAN
  BY <1>2 DEF Init, ViewType
<1>4. entry \in Entry
  <2>1. Nothing \in Entry
    BY DEF Nothing, Entry
  <2>2. Ask(Nothing) \in Entry
    BY <2>1, EntryOperators
  <2> QED
    BY <2>1, <2>2 DEF Init
<1>5. calls \in [Caller -> Call \cup {NoCall}]
  BY DEF Init
<1> QED
  BY <1>1, <1>2, <1>3, <1>4, <1>5 DEF TypeInv, TypeOK

LEMMA TypeStep == TypeInv /\ [Next]_vars => TypeInv'
<1> SUFFICES ASSUME TypeInv, [Next]_vars PROVE TypeInv'
  OBVIOUS
<1> USE DEF TypeInv, TypeOK
<1>1. ASSUME NEW v \in views, Stay(v) PROVE TypeInv'
  BY <1>1 DEF Stay
<1>2. ASSUME NEW v \in views, Move(v) PROVE TypeInv'
  <2>1. watched' \in BOOLEAN
    BY <1>2 DEF Move
  <2>2. entry' \in Entry
    BY <1>2, EntryOperators DEF Move
  <2> QED
    BY <1>2, <2>1, <2>2 DEF Move
<1>3. CASE Age
  BY <1>3 DEF Age, Entry
<1>4. CASE Forget
  BY <1>4, EntryOperators DEF Forget
<1>5. CASE Serve
  <2>1. entry' \in Entry
    BY <1>5 DEF Serve, Entry
  <2>2. calls' \in [Caller -> Call \cup {NoCall}]
    BY <1>5 DEF Serve, Call
  <2> QED
    BY <1>5, <2>1, <2>2 DEF Serve
<1>6. CASE Arrive
  <2>1. entry' \in Entry
    BY <1>6 DEF Arrive, Nothing, Entry
  <2>2. ASSUME NEW c \in Caller PROVE calls'[c] \in Call \cup {NoCall}
    <3>1. CASE calls[c] = NoCall
      BY <1>6, <3>1 DEF Arrive
    <3>2. CASE calls[c] # NoCall
      <4>1. calls[c] \in Call
        BY <3>2
      <4>2. (calls[c].missed /\ calls[c].late) \in BOOLEAN
        OBVIOUS
      <4> QED
        BY <1>6, <3>2, <4>1, <4>2 DEF Arrive, Call
    <3> QED
      BY <3>1, <3>2
  <2> QED
    BY <1>6, <2>1, <2>2 DEF Arrive
<1>7. CASE Fail
  <2>1. entry' \in Entry
    BY <1>7 DEF Fail, Ask, Drop, Entry
  <2> QED
    BY <1>7, <2>1 DEF Fail
<1>8. ASSUME NEW c \in Caller, NEW offer \in view.offers, Send(c, offer)
      PROVE TypeInv'
  <2>1. offer \in OfferType
    BY DEF ViewType
  <2>2. calls' \in [Caller -> Call \cup {NoCall}]
    BY <1>8, <2>1 DEF Send, Call, OfferType
  <2> QED
    BY <1>8, <2>2 DEF Send
<1>9. ASSUME NEW c \in Caller, Commit(c) PROVE TypeInv'
  <2>1. calls[c] \in Call
    BY <1>9 DEF Commit
  <2>2. calls' \in [Caller -> Call \cup {NoCall}]
    BY <1>9, <2>1 DEF Commit, Call
  <2> QED
    BY <1>9, <2>2 DEF Commit
<1>10. ASSUME NEW c \in Caller, Reject(c) PROVE TypeInv'
  BY <1>10 DEF Reject
<1>11. ASSUME NEW c \in Caller, Settle(c) PROVE TypeInv'
  <2> DEFINE owing == [entry EXCEPT
           !.owed  = @ \/ (entry.has /\ calls[c].missed),
           !.lacks = @ \/ (entry.has /\ calls[c].late
                             /\ entry.fetch = "answered")]
  <2>1. owing \in Entry
    BY DEF Entry
  <2>2. entry' \in Entry
    BY <1>11, <2>1, InvalidateType DEF Settle
  <2>3. calls' \in [Caller -> Call \cup {NoCall}]
    BY <1>11 DEF Settle
  <2> QED
    BY <1>11, <2>2, <2>3 DEF Settle
<1>12. CASE UNCHANGED vars
  BY <1>12 DEF vars
<1> QED
  BY <1>1, <1>2, <1>3, <1>4, <1>5, <1>6, <1>7, <1>8, <1>9, <1>10, <1>11,
     <1>12 DEF Next

\* TypeOK (the shapes of the entry, of the calls and of the pages seen by the
\* entry) holds in every state.
THEOREM TypeCorrect == Spec => []TypeOK
<1>1. TypeInv => TypeOK
  BY DEF TypeInv
<1> QED
  BY <1>1, TypeInit, TypeStep, PTL DEF Spec

-----------------------------------------------------------------------------
LEMMA RefreshedInit == Covered /\ Init => Refreshed
<1> SUFFICES ASSUME Covered, Init PROVE Refreshed
  OBVIOUS
<1>1. PICK pair : views = Client(pair)
  BY DEF Init
<1>2. ASSUME NEW p \in Place, NEW w \in Pages[p].writes,
             Offer(pair[1], pair[2], p, w).shown
      PROVE  Offer(pair[1], pair[2], p, w).refreshes
  <2>1. /\ <<pair[1], pair[2]>> \in Pages[p].shows
        /\ <<p, pair[1], pair[2]>> \notin Gap
        /\ pair[2] \in w.changes
    BY <1>2 DEF Offer, Displayed
  <2>2. PICK shown \in Pages[p].shows : shown = <<pair[1], pair[2]>>
    BY <2>1
  <2>3. shown[1] = pair[1] /\ shown[2] = pair[2]
    BY <2>2
  <2>4. pair[1] \in w.refreshes
    BY <2>1, <2>3 DEF Covered
  <2> QED
    BY <2>4 DEF Offer
<1>3. \A v \in views : \A offer \in v.offers : offer.shown => offer.refreshes
  BY <1>1, <1>2 DEF Client, View
<1>4. \A c \in Caller : calls[c] = NoCall
  BY DEF Init
<1> QED
  BY <1>3, <1>4 DEF Refreshed

\* A call keeps what it was sent with, and misses only what it was shown.
LEMMA RefreshedStep == TypeInv /\ Refreshed /\ [Next]_vars => Refreshed'
<1> SUFFICES ASSUME TypeInv, Refreshed, [Next]_vars PROVE Refreshed'
  OBVIOUS
<1> USE DEF Refreshed, TypeInv, TypeOK
<1>1. ASSUME NEW v \in views, Stay(v) \/ Move(v) PROVE Refreshed'
  BY <1>1 DEF Stay, Move
<1>2. CASE Age \/ Forget \/ Fail
  BY <1>2 DEF Age, Forget, Fail
<1>3. CASE Serve
  BY <1>3 DEF Serve, Call
<1>4. CASE Arrive
  BY <1>4 DEF Arrive, Call
<1>5. ASSUME NEW c \in Caller, NEW offer \in view.offers, Send(c, offer)
      PROVE Refreshed'
  <2>1. offer.shown => offer.refreshes
    OBVIOUS
  <2>2. calls'[c].shown => calls'[c].refreshes
    BY <1>5, <2>1 DEF Send
  <2>3. ~calls'[c].missed /\ ~calls'[c].late
    BY <1>5 DEF Send
  <2>4. \A d \in Caller \ {c} : calls'[d] = calls[d]
    BY <1>5 DEF Send
  <2> QED
    BY <1>5, <2>2, <2>3, <2>4 DEF Send
<1>6. ASSUME NEW c \in Caller, Commit(c) PROVE Refreshed'
  <2>1. calls[c] \in Call
    BY <1>6 DEF Commit
  <2>2. /\ calls'[c].shown = calls[c].shown
        /\ calls'[c].refreshes = calls[c].refreshes
        /\ calls'[c].missed => calls[c].shown
        /\ calls'[c].late => calls[c].shown
    BY <1>6, <2>1 DEF Commit, Call
  <2>3. \A d \in Caller \ {c} : calls'[d] = calls[d]
    BY <1>6 DEF Commit
  <2> QED
    BY <1>6, <2>1, <2>2, <2>3 DEF Commit
<1>7. ASSUME NEW c \in Caller, Reject(c) \/ Settle(c) PROVE Refreshed'
  <2>1. views' = views /\ calls'[c] = NoCall
    BY <1>7 DEF Reject, Settle
  <2>2. \A d \in Caller \ {c} : calls'[d] = calls[d]
    BY <1>7 DEF Reject, Settle
  <2> QED
    BY <2>1, <2>2
<1>8. CASE UNCHANGED vars
  BY <1>8 DEF vars
<1> QED
  BY <1>1, <1>2, <1>3, <1>4, <1>5, <1>6, <1>7, <1>8 DEF Next

LEMMA MarkedInit == Init => Marked
BY DEF Init, Marked, Ask, Nothing

LEMMA MarkedStep == KeepsUpInv /\ [Next]_vars => Marked'
<1> SUFFICES ASSUME KeepsUpInv, [Next]_vars PROVE Marked'
  OBVIOUS
<1> USE DEF KeepsUpInv, Marked, TypeInv, TypeOK
<1>1. ASSUME NEW v \in views, Stay(v) PROVE Marked'
  BY <1>1 DEF Stay
<1>2. ASSUME NEW v \in views, Move(v) PROVE Marked'
  <2> DEFINE left == IF watched THEN Drop(entry) ELSE entry
  <2>1. /\ left \in Entry /\ left.fetch = "idle" /\ ~left.lacks
        /\ left.owed => left.invalid
    BY DEF Drop, Entry
  <2>2. CASE watched'
    <3>1. entry' = Mount(left)
      BY <1>2, <2>2 DEF Move
    <3>2. /\ Mount(left).owed => Mount(left).invalid
          /\ ~Mount(left).lacks
          /\ Mount(left).invalid => Mount(left).fetch = "asked"
      BY <2>1 DEF Mount, Ask, Entry
    <3> QED
      BY <2>2, <3>1, <3>2
  <2>3. CASE ~watched'
    <3>1. entry' = left
      BY <1>2, <2>3 DEF Move
    <3> QED
      BY <2>1, <2>3, <3>1
  <2> QED
    BY <2>2, <2>3
<1>3. CASE Age
  BY <1>3 DEF Age, Entry
<1>4. CASE Forget
  BY <1>4 DEF Forget, Nothing
<1>5. CASE Serve
  BY <1>5 DEF Serve, Entry
<1>6. CASE Arrive
  BY <1>6 DEF Arrive, Nothing
<1>7. CASE Fail
  BY <1>7 DEF Fail, Ask, Drop, Entry
<1>8. ASSUME NEW c \in Caller, NEW offer \in view.offers, Send(c, offer)
      PROVE Marked'
  BY <1>8 DEF Send
<1>9. ASSUME NEW c \in Caller, Commit(c) \/ Reject(c) PROVE Marked'
  BY <1>9 DEF Commit, Reject
<1>10. ASSUME NEW c \in Caller, Settle(c) PROVE Marked'
  <2> DEFINE owing == [entry EXCEPT
           !.owed  = @ \/ (entry.has /\ calls[c].missed),
           !.lacks = @ \/ (entry.has /\ calls[c].late
                             /\ entry.fetch = "answered")]
  <2>1. calls[c] \in Call /\ watched' = watched
    BY <1>10 DEF Settle
  \* What the call leaves owed, its handler refreshes.
  <2>2. calls[c].missed \/ calls[c].late => calls[c].refreshes
    BY <1>10 DEF Settle, Refreshed
  <2>3. CASE ~calls[c].refreshes
    <3>1. ~calls[c].missed /\ ~calls[c].late
      BY <2>2, <2>3
    <3>2. /\ owing.fetch = entry.fetch /\ owing.invalid = entry.invalid
          /\ owing.failed = entry.failed
      BY DEF Entry
    <3>3. owing.owed => entry.owed
      BY <3>1 DEF Entry
    <3>4. ~owing.lacks
      BY <3>1 DEF Entry
    <3>5. entry' = owing
      BY <1>10, <2>3 DEF Settle
    <3> QED
      BY <2>1, <3>2, <3>3, <3>4, <3>5
  <2>4. CASE calls[c].refreshes
    <3>1. entry' = Invalidate(owing)
      BY <1>10, <2>4 DEF Settle
    <3>2. /\ owing \in Entry
          /\ owing.fetch = entry.fetch /\ owing.has = entry.has
      BY DEF Entry
    <3>3. CASE watched /\ (entry.fetch = "idle" \/ entry.has)
      <4>1. /\ entry'.fetch = "asked" /\ entry'.invalid
            /\ ~entry'.lacks
        BY <3>1, <3>2, <3>3 DEF Invalidate, Ask, Entry
      <4> QED
        BY <2>1, <3>3, <4>1
    <3>4. CASE ~(watched /\ (entry.fetch = "idle" \/ entry.has))
      \* No answer is held, or nobody watches and nothing is being fetched.
      <4>1. /\ entry'.fetch = entry.fetch /\ entry'.invalid
            /\ entry'.lacks = owing.lacks
        BY <3>1, <3>2, <3>4 DEF Invalidate, Entry
      <4>2. ~(entry.has /\ entry.fetch = "answered")
        BY <3>4
      <4>3. ~owing.lacks
        BY <4>2 DEF Entry
      <4> QED
        BY <2>1, <3>4, <4>1, <4>3
    <3> QED
      BY <3>3, <3>4
  <2> QED
    BY <2>3, <2>4
<1>11. CASE UNCHANGED vars
  BY <1>11 DEF vars
<1> QED
  BY <1>1, <1>2, <1>3, <1>4, <1>5, <1>6, <1>7, <1>8, <1>9, <1>10, <1>11
     DEF Next

-----------------------------------------------------------------------------
\* A client whose handlers refresh what their pages display never leaves a
\* quiet screen behind an acknowledged write made on it (ScreenKeepsUp), for
\* any pages, queries, facts and number of writes under way.
THEOREM ScreensKeepUp == Covered => (Spec => []ScreenKeepsUp)
<1> SUFFICES ASSUME Covered PROVE Spec => []ScreenKeepsUp
  OBVIOUS
<1>1. Init => KeepsUpInv
  BY TypeInit, RefreshedInit, MarkedInit DEF KeepsUpInv
<1>2. KeepsUpInv /\ [Next]_vars => KeepsUpInv'
  BY TypeStep, RefreshedStep, MarkedStep DEF KeepsUpInv
<1>3. KeepsUpInv => ScreenKeepsUp
  BY DEF KeepsUpInv, Marked, ScreenKeepsUp
<1> QED
  BY <1>1, <1>2, <1>3, PTL DEF Spec
=============================================================================
