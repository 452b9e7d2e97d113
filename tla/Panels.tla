------------------------------- MODULE Panels -------------------------------
(***************************************************************************)
(* The vocabulary in which the client's components are described, and the  *)
(* components several areas of the client share.                           *)
(*                                                                         *)
(* A component is reduced to what decides whether the screen keeps up with *)
(* the server: which kinds of facts it puts on the screen from which query *)
(* (shows), and for each write it offers, which facts the write changes on *)
(* the server and which queries its handler invalidates (writes).          *)
(*                                                                         *)
(* A query is named by its API path, a star for each identifier: from the  *)
(* root for the accounts and the user (/accounts, /me), else below the     *)
(* account's own.  The client invalidates by path template, so by exactly  *)
(* this name, whatever the identifiers and filters.  A fact is an entity   *)
(* type and an aspect:                                                     *)
(*   content    what a row or a page says of the entity itself             *)
(*   listing    which entities there are (changed by create and delete)    *)
(*   comments, votes, estimates   the tallies carried by the entity        *)
(***************************************************************************)
EXTENDS FiniteSets

Screen(shows, writes) == [shows |-> shows, writes |-> writes]

\* A component and those inside it.
Over(parts) == Screen(UNION {part.shows : part \in parts},
                      UNION {part.writes : part \in parts})

Shows(queryPath, entity, aspects) == {queryPath} \X ({entity} \X aspects)

\* A handler that awaits a mutation and then invalidates.  Writes of one
\* component that invalidate the same queries are one write that changes what
\* any of them changes.
Write(entity, aspects, refreshes) ==
  [changes |-> {entity} \X aspects, refreshes |-> refreshes]

Row == {"content", "listing"}
Tallies == {"comments", "votes", "estimates"}

\* A form, a table or a detail whose writes all end in the same invalidations.
Form(entity, refreshes) == Screen({}, {Write(entity, Row, refreshes)})
Creation(entity, refreshes) ==
  Screen({}, {Write(entity, {"listing"}, refreshes)})
Detail(queryPath, entity) == Screen(Shows(queryPath, entity, {"content"}), {})
Options(queryPath, entity) == Screen(Shows(queryPath, entity, Row), {})

\* The breadcrumb names the account and the entity being browsed.
AccountBreadcrumb(queryPath, entity) ==
  Over({Detail("/accounts/*", "account"), Detail(queryPath, entity)})

-----------------------------------------------------------------------------
\* ENTITY_QUERY_PATHS: the queries refreshed when a comment or a vote changes
\* the tallies of an entity.
EntityQueries(entity) ==
  CASE entity = "feature" -> {"features", "features/*"}
    [] entity = "application" -> {"applications", "applications/*"}
    [] entity = "application_route" -> {"applications/*/routes"}
    [] entity = "application_bounded_context" ->
         {"applications/*/bounded-contexts", "applications/*/bounded-contexts/*",
          "bounded-contexts"}
    [] entity = "application_component" ->
         {"applications/*/components", "applications/*/components/*",
          "components"}
    [] entity = "journey" -> {"journeys", "journeys/*"}
    [] entity = "journey_scenario" ->
         {"journeys/*/scenarios", "journeys/*/scenarios/*", "scenarios"}
    [] entity = "journey_scenario_step" -> {"journeys/*/scenarios/*/steps"}
    [] entity = "persona" -> {"personas"}
    [] entity = "database" -> {"databases", "databases/*"}
    [] entity = "database_table" -> {"databases/*/versions/*/tables"}
    [] entity = "database_table_column" ->
         {"databases/*/versions/*/tables/*/columns"}
    [] entity = "database_migration" -> {"databases/*/migrations"}
    [] entity = "database_migration_column" ->
         {"databases/*/migrations/*/columns"}
    [] entity = "service" -> {"services", "services/*"}
    [] entity = "service_action" -> {"services/*/actions"}

-----------------------------------------------------------------------------
(* Panels that discuss an entity. *)

\* VotesPanel: the votes, and the vote one casts.
VotesPanel(entity) ==
  Screen(Shows("votes", "vote", Row) \cup Shows("/me", "user", {"content"}),
         {Write("vote", Row, {"votes"} \cup EntityQueries(entity)),
          Write(entity, {"votes"}, {"votes"} \cup EntityQueries(entity))})

\* ComplexityPanel: the estimates, the scale, and the estimate one casts or
\* withdraws; only the panel's own listing is refreshed.
ComplexityPanel(entity) ==
  Screen(Shows("complexities", "estimate", Row)
           \cup Shows("complexities/scales", "scale", {"content"})
           \cup Shows("/me", "user", {"content"}),
         {Write("estimate", Row, {"complexities"}),
          Write(entity, {"estimates"}, {"complexities"})})

\* CommentThread: the replies of a comment, loaded by the comment, a reply
\* being a thread without replies.  Deleting or removing a comment, or editing
\* it, tells the host (onChanged) and refreshes the replies ...
Replies == {"comments/*/replies"}
CommentThread(entity, onChanged) ==
  Screen(Shows("comments/*/replies", "reply", Row),
         {Write("comment", Row, onChanged \cup Replies),
          Write(entity, {"comments"}, onChanged \cup Replies),
          \* ... while a reply added, edited or deleted refreshes the replies
          \* only, although the tallies count replies as comments.
          Write("reply", Row, Replies),
          Write(entity, {"comments"}, Replies)})

\* CommentsFeed: the comments its host loads from hostQuery; publishing one
\* refreshes what the host refreshes.
CommentsFeed(entity, hostQuery) ==
  LET onChanged == {hostQuery} \cup EntityQueries(entity)
  IN  Over({CommentThread(entity, onChanged), Detail("/me", "user"),
            Screen(Shows(hostQuery, "comment", Row),
                   {Write("comment", Row, onChanged),
                    Write(entity, {"comments"}, onChanged)})})

\* LinksPanel and LinkFormModal.
LinksPanel == Screen(Shows("links", "link", Row), {Write("link", Row, {"links"})})
LinkFormModal == Form("link", {"links"})

\* The tag pickers of a form and of a table cell, both able to create a tag.
TagsField == Over({Options("tags", "tag"), Form("tag", {"tags"})})
EditableTagsCell == Over({Options("tags", "tag"), Form("tag", {"tags"})})
TagFilters == Options("tags", "tag")

\* Who may unlock is read from the membership carried by the account.
CanManageLock == Detail("/accounts/*", "account")

\* useListView: the table's page, sort and filters, kept in the preferences
\* that the caller's seat in the account carries; the handler patches the
\* cached answer instead of invalidating it, so no write appears here.
ListView == Detail("me", "preferences")
=============================================================================
