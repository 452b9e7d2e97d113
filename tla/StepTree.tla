------------------------------ MODULE StepTree ------------------------------
(***************************************************************************)
(* The steps of the scenarios of one journey: JourneyManager.soft_delete,  *)
(* JourneyScenarioManager, JourneyScenarioStepManager and the managers of  *)
(* what hangs off a step, in src/apps/back/src/managers.                   *)
(*                                                                         *)
(* Steps form a tree: a step's parent is the step it follows.  Creating    *)
(* one slots it between a step and its followers, a PATCH moves one with   *)
(* all that follows it, a DELETE takes the whole subtree away.  A request  *)
(* reads with one query per step here, level by level when it walks a      *)
(* subtree, and writes in one commit at the end; others commit in between. *)
(*                                                                         *)
(* A locked row refuses its own PATCH and DELETE: the same as not sending  *)
(* them, so the lock is left out.                                          *)
(*                                                                         *)
(* A definition named X_Something is a mutated form of X, the next one: it *)
(* is no part of the specification.                                        *)
(***************************************************************************)
EXTENDS Naturals

CONSTANTS
  Step,      \* bound: the journey_scenario_step rows there is room for
  Scenario,  \* bound: the journey_scenario rows there is room for
  Null,      \* no parent step; no scenario, for a row not yet there
  Worker,    \* threads that serve requests
  Serial     \* TRUE: a request starts only when no other is in flight

ASSUME NullIsNoRow == Null \notin Step \cup Scenario
ASSUME SerialIsBoolean == Serial \in BOOLEAN

VARIABLES
  journey,   \* the journey's enabled column
  scenario,  \* per scenario: not created, enabled, or soft-deleted
  step,      \* the step rows
  parts,     \* the steps that have an enabled file, assertion or route link
  request    \* what each worker is doing and has read

vars == <<journey, scenario, step, parts, request>>

----------------------------------------------------------------------------
(* Rows and requests.                                                      *)

RowState == {"none", "enabled", "disabled"}
Parent == Step \cup {Null}

StepRow == [state : RowState, home : Scenario \cup {Null}, parent : Parent]

Idle == [op |-> "idle"]

CreateRequest ==
  [op : {"create"}, at : {"item", "write"}, scenario : Scenario,
   parent : Parent]

\* A walk of the subtree of a step: ids found so far, and those of them whose
\* children are still to be queried.
WalkRequest ==
  [op : {"move", "delete"}, at : {"walk", "write"}, step : Step, to : Parent,
   ids : SUBSET Step, frontier : SUBSET Step]

PartRequest == [op : {"attach", "detach"}, step : Step]

DropRequest == [op : {"drop"}, scenario : Scenario]

JourneyRequest == [op : {"add", "drop all"}]

Request ==
  {Idle} \cup CreateRequest \cup WalkRequest \cup PartRequest
         \cup DropRequest \cup JourneyRequest

TypeOK ==
  /\ journey \in BOOLEAN
  /\ scenario \in [Scenario -> RowState]
  /\ step \in [Step -> StepRow]
  /\ parts \in SUBSET Step
  /\ request \in [Worker -> Request]

----------------------------------------------------------------------------
(* Queries.                                                                *)

Enabled == {s \in Step : step[s].state = "enabled"}

\* get_current_journey_scenario: of an enabled journey, and enabled.
Open(sc) == journey /\ scenario[sc] = "enabled"

\* get_current_journey_scenario_step.
Found(s) == s \in Enabled /\ Open(step[s].home)

\* _assert_parent_in_scenario, without the walk.
ValidParent_AnyScenario(sc, p) == p = Null \/ p \in Enabled

ValidParent(sc, p) ==
  \/ p = Null
  \/ p \in Enabled /\ step[p].home = sc

Children(S) == {c \in Enabled : step[c].parent \in S}

\* The WHERE clause of _adopt_former_children, for the new step n.
Adopted_Itself(sc, p, n) ==
  {n} \cup {c \in Enabled : step[c].home = sc /\ step[c].parent = p}

Adopted_Subtree(sc, p, n) ==
  LET first == {c \in Enabled : step[c].home = sc /\ step[c].parent = p}
  IN  first \cup Children(first)

Adopted(sc, p, n) ==
  {c \in Enabled \ {n} : step[c].home = sc /\ step[c].parent = p}

----------------------------------------------------------------------------
(* Starting, ending and abandoning a request.                              *)

CanStart(w) ==
  /\ request[w] = Idle
  /\ Serial => \A v \in Worker : request[v] = Idle

Start(w, r) == CanStart(w) /\ request' = [request EXCEPT ![w] = r]
Finish(w) == request' = [request EXCEPT ![w] = Idle]
Continue(w, r) == request' = [request EXCEPT ![w] = r]

\* An exception or a killed worker: the transaction is rolled back.
Abort(w) ==
  /\ request[w] # Idle
  /\ Finish(w)
  /\ UNCHANGED <<journey, scenario, step, parts>>

----------------------------------------------------------------------------
(* Creating steps: create, alone or from bulk_create.                      *)

Creation(at, sc, p) ==
  [op |-> "create", at |-> at, scenario |-> sc, parent |-> p]

\* The route resolves the scenario once, for all the items of a bulk call.
LoadCreate(w) ==
  \E sc \in Scenario :
    /\ Open(sc)
    /\ Start(w, Creation("item", sc, Null))
    /\ UNCHANGED <<journey, scenario, step, parts>>

\* An item: its parent, if it names one, is looked up.  An item that fails
\* leaves nothing behind, and the call goes on with the next one.
CheckItem(w) ==
  \E p \in Parent :
    /\ request[w] \in CreateRequest /\ request[w].at = "item"
    /\ ValidParent(request[w].scenario, p)
    /\ Continue(w, Creation("write", request[w].scenario, p))
    /\ UNCHANGED <<journey, scenario, step, parts>>

\* INSERT, the UPDATE that adopts the followers, COMMIT; then the next item
\* or the end.
WriteCreate(w) ==
  LET sc == request[w].scenario
      p  == request[w].parent
  IN
  /\ request[w] \in CreateRequest /\ request[w].at = "write"
  /\ \E n \in Step :
       /\ step[n].state = "none"
       /\ step' = [s \in Step |->
            LET row == IF s = n
                       THEN [state |-> "enabled", home |-> sc, parent |-> p]
                       ELSE step[s]
            IN  IF s \in Adopted(sc, p, n)
                THEN [row EXCEPT !.parent = n]
                ELSE row]
  /\ Continue(w, Creation("item", sc, Null)) \/ Finish(w)
  /\ UNCHANGED <<journey, scenario, parts>>

----------------------------------------------------------------------------
(* Moving and deleting: update with a parent, soft_delete.                 *)

Walking_FromParentToo(op, at, s, p, ids) ==
  [op |-> op, at |-> at, step |-> s, to |-> p,
   ids |-> ids \cup {p}, frontier |-> ids]

Walking(op, at, s, p, ids) ==
  [op |-> op, at |-> at, step |-> s, to |-> p, ids |-> ids, frontier |-> ids]

\* A move to another parent, itself refused, is checked by a walk; a move to
\* the head of the scenario is not.  A parent that is already the step's is
\* no change, and writes none.
LoadMove(w) ==
  \E s \in Step, p \in Parent :
    /\ Found(s)
    /\ p # s /\ ValidParent(step[s].home, p)
    /\ p # step[s].parent
    /\ IF p = Null
       THEN Start(w, Walking("move", "write", s, p, {}))
       ELSE Start(w, Walking("move", "walk", s, p, {s}))
    /\ UNCHANGED <<journey, scenario, step, parts>>

LoadDelete(w) ==
  \E s \in Step :
    /\ Found(s)
    /\ Start(w, Walking("delete", "walk", s, Null, {s}))
    /\ UNCHANGED <<journey, scenario, step, parts>>

\* What a finished walk leads to: 422 for a move under a descendant.
Refused_Never(r, ids) == FALSE

Refused(r, ids) == r.op = "move" /\ r.to \in ids

\* One query of _descendant_step_ids: the enabled children of the frontier
\* that were not found before.
Fresh_Again(r) == Children(r.frontier)

Fresh(r) == Children(r.frontier) \ r.ids

Walk(w) ==
  LET r     == request[w]
      fresh == Fresh(r)
      ids   == r.ids \cup fresh
  IN
  /\ r \in WalkRequest /\ r.at = "walk"
  /\ IF fresh # {}
     THEN Continue(w, [r EXCEPT !.ids = ids, !.frontier = fresh])
     ELSE IF Refused(r, ids)
     THEN Finish(w)
     ELSE Continue(w, [r EXCEPT !.at = "write", !.frontier = {}])
  /\ UNCHANGED <<journey, scenario, step, parts>>

WriteMove(w) ==
  /\ request[w] \in WalkRequest
  /\ request[w].op = "move" /\ request[w].at = "write"
  /\ step' = [step EXCEPT ![request[w].step].parent = request[w].to]
  /\ Finish(w)
  /\ UNCHANGED <<journey, scenario, parts>>

\* _bulk_disable: the rows that are enabled, whatever else they hold.
Disable(S) ==
  step' = [s \in Step |->
    IF s \in S \cap Enabled THEN [step[s] EXCEPT !.state = "disabled"]
    ELSE step[s]]

\* The rows the walk found, and their files, assertions and route links.
Doomed_Alone(r) == {r.step}

Doomed(r) == r.ids

WriteDelete(w) ==
  /\ request[w] \in WalkRequest
  /\ request[w].op = "delete" /\ request[w].at = "write"
  /\ Disable(Doomed(request[w]))
  /\ parts' = parts \ Doomed(request[w])
  /\ Finish(w)
  /\ UNCHANGED <<journey, scenario>>

----------------------------------------------------------------------------
(* What hangs off a step: its files, assertions and route links.           *)

LoadPart(w) ==
  \E s \in Step, op \in {"attach", "detach"} :
    /\ Found(s)
    /\ op = "detach" => s \in parts
    /\ Start(w, [op |-> op, step |-> s])
    /\ UNCHANGED <<journey, scenario, step, parts>>

\* Taking a part away leaves the step with others, or with none.
WritePart(w) ==
  /\ request[w] \in PartRequest
  /\ \/ request[w].op = "attach" /\ parts' = parts \cup {request[w].step}
     \/ request[w].op = "detach" /\ parts' \in {parts, parts \ {request[w].step}}
  /\ Finish(w)
  /\ UNCHANGED <<journey, scenario, step>>

----------------------------------------------------------------------------
(* Scenarios and the journey.                                              *)

LoadAddScenario(w) ==
  /\ journey
  /\ Start(w, [op |-> "add"])
  /\ UNCHANGED <<journey, scenario, step, parts>>

WriteAddScenario(w) ==
  /\ request[w] \in JourneyRequest /\ request[w].op = "add"
  /\ \E sc \in Scenario :
       /\ scenario[sc] = "none"
       /\ scenario' = [scenario EXCEPT ![sc] = "enabled"]
  /\ Finish(w)
  /\ UNCHANGED <<journey, step, parts>>

LoadDropScenario(w) ==
  \E sc \in Scenario :
    /\ Open(sc)
    /\ Start(w, [op |-> "drop", scenario |-> sc])
    /\ UNCHANGED <<journey, scenario, step, parts>>

StepsOf(S) == {s \in Step : step[s].home \in S /\ step[s].state # "none"}

\* JourneyScenarioManager.soft_delete.
WriteDropScenario(w) ==
  LET sc == request[w].scenario IN
  /\ request[w] \in DropRequest
  /\ scenario' = [scenario EXCEPT ![sc] = "disabled"]
  /\ Disable(StepsOf({sc}))
  /\ parts' = parts \ StepsOf({sc})
  /\ Finish(w)
  /\ UNCHANGED journey

LoadDropJourney(w) ==
  /\ journey
  /\ Start(w, [op |-> "drop all"])
  /\ UNCHANGED <<journey, scenario, step, parts>>

\* JourneyManager.soft_delete.
WriteDropJourney(w) ==
  /\ request[w] \in JourneyRequest /\ request[w].op = "drop all"
  /\ journey' = FALSE
  /\ scenario' = [sc \in Scenario |->
       IF scenario[sc] = "enabled" THEN "disabled" ELSE scenario[sc]]
  /\ Disable(StepsOf(Scenario))
  /\ parts' = parts \ StepsOf(Scenario)
  /\ Finish(w)

----------------------------------------------------------------------------

Init ==
  /\ journey = TRUE
  /\ scenario = [sc \in Scenario |-> "none"]
  /\ step = [s \in Step |-> [state |-> "none", home |-> Null, parent |-> Null]]
  /\ parts = {}
  /\ request = [w \in Worker |-> Idle]

CreateStep(w) == LoadCreate(w) \/ CheckItem(w) \/ WriteCreate(w)

TreeStep(w) ==
  LoadMove(w) \/ LoadDelete(w) \/ Walk(w) \/ WriteMove(w) \/ WriteDelete(w)

PartStep(w) == LoadPart(w) \/ WritePart(w)

ScenarioStep(w) ==
  \/ LoadAddScenario(w) \/ WriteAddScenario(w)
  \/ LoadDropScenario(w) \/ WriteDropScenario(w)
  \/ LoadDropJourney(w) \/ WriteDropJourney(w)

Next ==
  \E w \in Worker :
    CreateStep(w) \/ TreeStep(w) \/ PartStep(w) \/ ScenarioStep(w) \/ Abort(w)

Spec == Init /\ [][Next]_vars

\* A worker in the loop of _descendant_step_ids sends the next query: nothing
\* in the loop waits for another request.
FairSpec == Spec /\ \A w \in Worker : WF_vars(Walk(w))

----------------------------------------------------------------------------
(* Properties that hold however requests interleave.                       *)

\* A step's parent is a step of the same scenario, and never itself: create,
\* update and the adoption of followers each see to it on their own.
ParentInScenario ==
  \A s \in Step :
    step[s].parent # Null =>
      /\ step[s].parent # s
      /\ step[step[s].parent].home = step[s].home

\* y comes after x in the tree: y is in every set of steps that holds x and,
\* with a step, all that follow it.
Follows(x, y) ==
  \A T \in SUBSET Step : (x \in T /\ Children(T) \subseteq T) => y \in T

\* create: "slots the step right after X and before what used to follow X".
\* An insertion leaves every step after the steps it came after.
InsertKeepsOrder ==
  [][(\E n \in Step : step[n].state = "none" /\ step'[n].state = "enabled")
       => \A x, y \in Enabled : Follows(x, y) => Follows(x, y)']_step

\* Every walk of a subtree ends, though others move steps under it all the
\* while, and though the steps it meets may have been closed into a ring.
InWalk(w) == request[w] \in WalkRequest /\ request[w].at = "walk"

WalkEnds == \A w \in Worker : InWalk(w) ~> ~InWalk(w)

----------------------------------------------------------------------------
(* Properties that hold while certain requests are kept apart, and so with *)
(* Serial: StepTreeProofs says which.                                      *)

\* "Steps form a tree inside a scenario": no set of steps closes into a ring,
\* each step's parent being another of the set.
Acyclic ==
  \A S \in SUBSET Enabled : S # {} => \E s \in S : step[s].parent \notin S

\* journey.py: "Soft-delete the journey and every child entity that hangs off
\* it", and the same of a scenario.
ScenariosUnderJourney ==
  /\ \A sc \in Scenario : scenario[sc] = "enabled" => journey
  /\ \A s \in Enabled : scenario[step[s].home] = "enabled"

\* "Deleting a step soft-deletes its whole subtree (descendant steps) plus
\* their files and assertions."
StepsUnderSteps ==
  \A s \in Enabled : step[s].parent # Null => step[s].parent \in Enabled

PartsUnderSteps == parts \subseteq Enabled

\* Nothing enabled is left under what was deleted.
NothingOutlivesItsParent ==
  ScenariosUnderJourney /\ StepsUnderSteps /\ PartsUnderSteps

\* A reader that walks each enabled scenario's tree from its roots finds every
\* enabled step.
Roots == {s \in Enabled : step[s].parent = Null}

EveryStepIsRead ==
  \A T \in SUBSET Enabled :
    (Roots \subseteq T /\ Children(T) \subseteq T) => T = Enabled
=============================================================================
