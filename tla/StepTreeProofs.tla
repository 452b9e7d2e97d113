--------------------------- MODULE StepTreeProofs ---------------------------
(***************************************************************************)
(* Theorems about StepTree, for any steps, scenarios and workers.          *)
(***************************************************************************)
EXTENDS StepTree, TLAPS

(* Type correctness. *)

LEMMA RequestType ==
  ASSUME TypeOK, NEW w \in Worker, NEW r \in Request,
         Start(w, r) \/ Continue(w, r)
  PROVE  request' \in [Worker -> Request]
BY DEF TypeOK, Start, Continue

LEMMA FinishType ==
  ASSUME TypeOK, NEW w \in Worker, Finish(w)
  PROVE  request' \in [Worker -> Request]
BY DEF TypeOK, Finish, Request

LEMMA DisableType ==
  ASSUME TypeOK, NEW S, Disable(S)
  PROVE  step' \in [Step -> StepRow]
BY DEF TypeOK, Disable, StepRow, RowState

LEMMA CreateStepType ==
  ASSUME TypeOK, NEW w \in Worker, CreateStep(w)
  PROVE  TypeOK'
<1>1. CASE LoadCreate(w)
  <2>1. PICK sc \in Scenario : Start(w, Creation("item", sc, Null))
    BY <1>1 DEF LoadCreate
  <2>2. Creation("item", sc, Null) \in Request
    BY DEF Creation, Request, CreateRequest, Parent
  <2>3. QED BY <1>1, <2>1, <2>2, RequestType DEF LoadCreate, TypeOK
<1>2. CASE CheckItem(w)
  <2>1. PICK p \in Parent :
          Continue(w, Creation("write", request[w].scenario, p))
    BY <1>2 DEF CheckItem
  <2>2. Creation("write", request[w].scenario, p) \in Request
    BY <1>2 DEF CheckItem, Creation, Request, CreateRequest
  <2>3. QED BY <1>2, <2>1, <2>2, RequestType DEF CheckItem, TypeOK
<1>3. CASE WriteCreate(w)
  <2> DEFINE sc == request[w].scenario
             p == request[w].parent
  <2>1. sc \in Scenario /\ p \in Parent
    BY <1>3 DEF WriteCreate, CreateRequest
  <2>2. step' \in [Step -> StepRow]
    BY <1>3, <2>1 DEF WriteCreate, TypeOK, StepRow, RowState, Parent
  <2>3. Creation("item", sc, Null) \in Request
    BY <2>1 DEF Creation, Request, CreateRequest, Parent
  <2>4. request' \in [Worker -> Request]
    BY <1>3, <2>3, RequestType, FinishType DEF WriteCreate
  <2>5. QED BY <1>3, <2>2, <2>4 DEF WriteCreate, TypeOK
<1>4. QED BY <1>1, <1>2, <1>3 DEF CreateStep

LEMMA TreeStepType ==
  ASSUME TypeOK, NEW w \in Worker, TreeStep(w)
  PROVE  TypeOK'
<1>1. CASE LoadMove(w) \/ LoadDelete(w)
  <2>1. PICK op \in {"move", "delete"}, at \in {"walk", "write"}, s \in Step,
             p \in Parent, ids \in SUBSET Step :
               Start(w, Walking(op, at, s, p, ids))
    BY <1>1 DEF LoadMove, LoadDelete, Parent
  <2>2. Walking(op, at, s, p, ids) \in Request
    BY DEF Walking, Request, WalkRequest
  <2>3. QED BY <1>1, <2>1, <2>2, RequestType DEF LoadMove, LoadDelete, TypeOK
<1>2. CASE Walk(w)
  <2> DEFINE r == request[w]
             fresh == Children(r.frontier) \ r.ids
  <2>1. fresh \in SUBSET Step
    BY DEF Children, Enabled
  <2>2. r \in WalkRequest
    BY <1>2 DEF Walk
  <2>3. /\ [r EXCEPT !.ids = r.ids \cup fresh, !.frontier = fresh] \in Request
        /\ [r EXCEPT !.at = "write", !.frontier = {}] \in Request
    BY <2>1, <2>2 DEF WalkRequest, Request
  <2>4. request' \in [Worker -> Request]
    BY <1>2, <2>3, RequestType, FinishType DEF Walk, Fresh
  <2>5. QED BY <1>2, <2>4 DEF Walk, TypeOK
<1>3. CASE WriteMove(w)
  <2>1. step' \in [Step -> StepRow]
    BY <1>3 DEF WriteMove, WalkRequest, TypeOK, StepRow
  <2>2. QED BY <1>3, <2>1, FinishType DEF WriteMove, TypeOK
<1>4. CASE WriteDelete(w)
  BY <1>4, DisableType, FinishType DEF WriteDelete, TypeOK
<1>5. QED BY <1>1, <1>2, <1>3, <1>4 DEF TreeStep

LEMMA PartStepType ==
  ASSUME TypeOK, NEW w \in Worker, PartStep(w)
  PROVE  TypeOK'
<1>1. CASE LoadPart(w)
  <2>1. PICK r \in Request : Start(w, r)
    BY <1>1 DEF LoadPart, Request, PartRequest
  <2>2. QED BY <1>1, <2>1, RequestType DEF LoadPart, TypeOK
<1>2. CASE WritePart(w)
  BY <1>2, FinishType DEF WritePart, PartRequest, TypeOK
<1>3. QED BY <1>1, <1>2 DEF PartStep

LEMMA ScenarioStepType ==
  ASSUME TypeOK, NEW w \in Worker, ScenarioStep(w)
  PROVE  TypeOK'
<1>1. CASE LoadAddScenario(w) \/ LoadDropScenario(w) \/ LoadDropJourney(w)
  <2>1. PICK r \in Request : Start(w, r)
    BY <1>1 DEF LoadAddScenario, LoadDropScenario, LoadDropJourney, Request,
                DropRequest, JourneyRequest
  <2>2. QED
    BY <1>1, <2>1, RequestType
    DEF LoadAddScenario, LoadDropScenario, LoadDropJourney, TypeOK
<1>2. CASE WriteAddScenario(w)
  BY <1>2, FinishType DEF WriteAddScenario, TypeOK, RowState
<1>3. CASE WriteDropScenario(w)
  BY <1>3, FinishType, DisableType DEF WriteDropScenario, TypeOK, RowState
<1>4. CASE WriteDropJourney(w)
  BY <1>4, FinishType, DisableType DEF WriteDropJourney, TypeOK, RowState
<1>5. QED BY <1>1, <1>2, <1>3, <1>4 DEF ScenarioStep

\* Every reachable state is well typed.
THEOREM TypeCorrect == Spec => []TypeOK
<1>1. Init => TypeOK
  BY DEF Init, TypeOK, StepRow, RowState, Parent, Request
<1>2. TypeOK /\ [Next]_vars => TypeOK'
  <2> SUFFICES ASSUME TypeOK, [Next]_vars PROVE TypeOK'
    OBVIOUS
  <2>1. CASE UNCHANGED vars
    BY <2>1 DEF vars, TypeOK
  <2>2. ASSUME NEW w \in Worker, Abort(w) PROVE TypeOK'
    BY <2>2, FinishType DEF Abort, TypeOK
  <2>3. QED
    BY <2>1, <2>2, CreateStepType, TreeStepType, PartStepType, ScenarioStepType
    DEF Next
<1>3. QED BY <1>1, <1>2, PTL DEF Spec

----------------------------------------------------------------------------
(* Parents stay in their scenario, however requests interleave.            *)

LEMMA StepWriters ==
  ASSUME [Next]_vars
  PROVE  \/ UNCHANGED step
         \/ \E w \in Worker :
              \/ WriteCreate(w) \/ WriteMove(w) \/ WriteDelete(w)
              \/ WriteDropScenario(w) \/ WriteDropJourney(w)
BY DEF Next, vars, CreateStep, TreeStep, PartStep, ScenarioStep, Abort,
       LoadCreate, CheckItem, LoadMove, LoadDelete, Walk, LoadPart, WritePart,
       LoadAddScenario, WriteAddScenario, LoadDropScenario, LoadDropJourney

\* A free row holds nothing yet; a row in use has a scenario.
FreeRowsEmpty ==
  \A s \in Step :
    IF step[s].state = "none"
    THEN step[s].home = Null /\ step[s].parent = Null
    ELSE step[s].home \in Scenario

\* p is no parent, or a row of the scenario, enabled or not.
KnownIn(sc, p) == p = Null \/ (step[p].state # "none" /\ step[p].home = sc)

\* What a request has checked about the parent it is about to write.
ParentChecked(r) ==
  /\ (r \in CreateRequest /\ r.at = "write") => KnownIn(r.scenario, r.parent)
  /\ (r \in WalkRequest /\ r.op = "move") =>
       /\ r.to # r.step
       /\ step[r.step].state # "none"
       /\ KnownIn(step[r.step].home, r.to)

ParentsKnown ==
  \A s \in Step : step[s].parent # s /\ KnownIn(step[s].home, step[s].parent)

ParentInv ==
  FreeRowsEmpty /\ ParentsKnown /\ \A w \in Worker : ParentChecked(request[w])

\* A row once in use stays in use, in the same scenario.
RowsKept ==
  \A s \in Step : step[s].state # "none" =>
    step'[s].state # "none" /\ step'[s].home = step[s].home

LEMMA RowsAreKept ==
  ASSUME TypeOK, [Next]_vars
  PROVE  RowsKept
<1>1. ASSUME NEW w \in Worker, WriteCreate(w) PROVE RowsKept
  BY <1>1 DEF WriteCreate, RowsKept, TypeOK, StepRow
<1>2. ASSUME NEW w \in Worker, WriteMove(w) PROVE RowsKept
  BY <1>2 DEF WriteMove, RowsKept, TypeOK, StepRow
<1>3. ASSUME NEW S, Disable(S) PROVE RowsKept
  BY <1>3 DEF Disable, RowsKept, TypeOK, StepRow
<1>4. QED
  BY <1>1, <1>2, <1>3, StepWriters
  DEF WriteDelete, WriteDropScenario, WriteDropJourney, RowsKept

\* What was known stays known.
LEMMA KnownStays ==
  ASSUME RowsKept, NEW sc, NEW p \in Parent, KnownIn(sc, p)
  PROVE  KnownIn(sc, p)'
BY DEF RowsKept, KnownIn, Parent

LEMMA FreeRowsEmptyStep ==
  ASSUME TypeOK, ParentInv, [Next]_vars
  PROVE  FreeRowsEmpty'
<1> USE DEF ParentInv
<1>1. ASSUME NEW w \in Worker, WriteCreate(w) PROVE FreeRowsEmpty'
  <2>1. request[w].scenario \in Scenario
    BY <1>1 DEF WriteCreate, CreateRequest
  <2>2. QED
    BY <1>1, <2>1 DEF WriteCreate, FreeRowsEmpty, TypeOK, StepRow, Adopted, Enabled
<1>2. ASSUME NEW w \in Worker, WriteMove(w) PROVE FreeRowsEmpty'
  BY <1>2 DEF WriteMove, ParentChecked, FreeRowsEmpty, TypeOK, StepRow
<1>3. ASSUME NEW S, Disable(S) PROVE FreeRowsEmpty'
  BY <1>3 DEF Disable, FreeRowsEmpty, TypeOK, StepRow, Enabled
<1>4. QED
  BY <1>1, <1>2, <1>3, StepWriters
  DEF WriteDelete, WriteDropScenario, WriteDropJourney, FreeRowsEmpty

LEMMA ParentsKnownStep ==
  ASSUME TypeOK, ParentInv, [Next]_vars
  PROVE  ParentsKnown'
<1> USE DEF ParentInv
<1>1. RowsKept
  BY RowsAreKept
<1>2. \A s \in Step : step[s].home # Null => step[s].state # "none"
  BY DEF FreeRowsEmpty
<1>3. ASSUME NEW s \in Step, step'[s].parent = step[s].parent
      PROVE  /\ step'[s].parent # s
             /\ KnownIn(step[s].home, step[s].parent)'
  <2>1. step[s].parent # s /\ KnownIn(step[s].home, step[s].parent)
    BY DEF ParentsKnown
  <2>2. CASE step[s].state = "none"
    <3>1. step[s].parent = Null
      BY <2>2 DEF FreeRowsEmpty
    <3>2. QED BY <1>3, <2>1, <3>1 DEF KnownIn
  <2>3. CASE step[s].state # "none"
    BY <1>1, <1>3, <2>1, <2>3, KnownStays DEF RowsKept, KnownIn, TypeOK, StepRow
  <2>4. QED BY <2>2, <2>3
<1>4. ASSUME NEW w \in Worker, WriteCreate(w) PROVE ParentsKnown'
  <2> DEFINE sc == request[w].scenario
             p == request[w].parent
  <2>1. sc \in Scenario /\ KnownIn(sc, p) /\ p \in Parent
    BY <1>4 DEF WriteCreate, CreateRequest, ParentChecked
  <2>2. PICK n \in Step :
          /\ step[n].state = "none"
          /\ step'[n] = [state |-> "enabled", home |-> sc, parent |-> p]
          /\ \A s \in Step \ {n} :
               \/ step'[s] = step[s]
               \/ step[s].home = sc /\ step'[s] = [step[s] EXCEPT !.parent = n]
    BY <1>4 DEF WriteCreate, Adopted
  <2>3. p # n
    BY <2>1, <2>2, NullIsNoRow DEF KnownIn
  <2>4. KnownIn(step[n].home, step[n].parent)'
    BY <1>1, <2>1, <2>2, KnownStays DEF KnownIn
  <2>5. ASSUME NEW s \in Step \ {n}
        PROVE  step'[s].parent # s /\ KnownIn(step[s].home, step[s].parent)'
    <3>1. CASE step'[s] = step[s]
      BY <1>3, <3>1
    <3>2. CASE step[s].home = sc /\ step'[s] = [step[s] EXCEPT !.parent = n]
      BY <2>2, <3>2 DEF KnownIn, TypeOK, StepRow
    <3>3. QED BY <2>2, <3>1, <3>2
  <2>6. QED BY <2>2, <2>3, <2>4, <2>5 DEF ParentsKnown
<1>5. ASSUME NEW w \in Worker, WriteMove(w) PROVE ParentsKnown'
  <2>1. PICK k \in Step, q \in Parent :
          /\ request[w] \in WalkRequest /\ request[w].op = "move"
          /\ k = request[w].step /\ q = request[w].to
          /\ step' = [step EXCEPT ![k].parent = q]
    BY <1>5 DEF WriteMove, WalkRequest
  <2>2. q # k /\ step[k].state # "none" /\ KnownIn(step[k].home, q)
    BY <2>1 DEF ParentChecked
  <2>3. step'[k].parent = q /\ step'[k].home = step[k].home
    BY <2>1 DEF TypeOK, StepRow
  <2>4. KnownIn(step[k].home, step[k].parent)'
    BY <1>1, <2>2, <2>3, KnownStays DEF KnownIn
  <2>5. \A s \in Step : s # k => step'[s].parent = step[s].parent
    BY <2>1 DEF TypeOK, StepRow
  <2>6. QED BY <1>3, <2>2, <2>3, <2>4, <2>5 DEF ParentsKnown
<1>6. ASSUME NEW S, Disable(S) PROVE ParentsKnown'
  <2>1. \A s \in Step : step'[s].parent = step[s].parent
    BY <1>6 DEF Disable, TypeOK, StepRow
  <2>2. QED BY <1>3, <2>1 DEF ParentsKnown
<1>7. CASE UNCHANGED step
  BY <1>3, <1>7 DEF ParentsKnown
<1>8. QED
  BY <1>4, <1>5, <1>6, <1>7, StepWriters
  DEF WriteDelete, WriteDropScenario, WriteDropJourney

\* A record changes by the worker's own steps only, and holds something only
\* after these.
Loads(w) ==
  \/ LoadCreate(w) \/ LoadMove(w) \/ LoadDelete(w) \/ LoadPart(w)
  \/ LoadAddScenario(w) \/ LoadDropScenario(w) \/ LoadDropJourney(w)

LEMMA RequestSteps ==
  ASSUME TypeOK, [Next]_vars, NEW w \in Worker
  PROVE  \/ request'[w] = request[w] \/ request'[w] = Idle
         \/ Loads(w) \/ CheckItem(w) \/ Walk(w) \/ WriteCreate(w)
<1> USE DEF TypeOK
<1>1. ASSUME NEW v \in Worker, v # w,
             (\E x : Start(v, x) \/ Continue(v, x)) \/ Finish(v)
      PROVE  request'[w] = request[w]
  BY <1>1 DEF Start, Continue, Finish
<1>2. ASSUME NEW v \in Worker, Finish(v), v = w PROVE request'[w] = Idle
  BY <1>2 DEF Finish
<1>3. ASSUME NEW v \in Worker, Loads(v) PROVE \E x : Start(v, x)
  BY <1>3 DEF Loads, LoadCreate, LoadMove, LoadDelete, LoadPart,
              LoadAddScenario, LoadDropScenario, LoadDropJourney
<1>4. ASSUME NEW v \in Worker, CheckItem(v) \/ Walk(v) \/ WriteCreate(v)
      PROVE  (\E x : Continue(v, x)) \/ Finish(v)
  BY <1>4 DEF CheckItem, Walk, WriteCreate
<1>5. ASSUME NEW v \in Worker,
             \/ WriteMove(v) \/ WriteDelete(v) \/ WritePart(v)
             \/ WriteAddScenario(v) \/ WriteDropScenario(v)
             \/ WriteDropJourney(v) \/ Abort(v)
      PROVE  Finish(v)
  BY <1>5 DEF WriteMove, WriteDelete, WritePart, WriteAddScenario,
              WriteDropScenario, WriteDropJourney, Abort
<1>6. CASE UNCHANGED vars
  BY <1>6 DEF vars
<1>7. QED
  BY <1>1, <1>2, <1>3, <1>4, <1>5, <1>6
  DEF Next, Loads, CreateStep, TreeStep, PartStep, ScenarioStep

LEMMA IdleNamesNothing ==
  /\ Idle \notin CreateRequest /\ Idle \notin WalkRequest
  /\ Idle \notin PartRequest /\ Idle \notin JourneyRequest
BY DEF Idle, CreateRequest, WalkRequest, PartRequest, JourneyRequest

\* The record a request that names a parent comes from.
LEMMA ParentCheckedStep ==
  ASSUME TypeOK, ParentInv, [Next]_vars, NEW w \in Worker
  PROVE  ParentChecked(request[w])'
<1> DEFINE r == request[w]
<1>1. RowsKept
  BY RowsAreKept
<1>2. CASE request'[w] = r
  <2>1. ParentChecked(r)
    BY DEF ParentInv
  <2>2. QED
    BY <1>1, <1>2, <2>1
    DEF ParentChecked, KnownIn, RowsKept, CreateRequest, WalkRequest, Parent
<1>3. CASE CheckItem(w)
  <2>1. PICK sc \in Scenario, p \in Parent :
          /\ request'[w] = Creation("write", sc, p)
          /\ ValidParent(sc, p)
    BY <1>3 DEF CheckItem, Continue, CreateRequest, TypeOK
  <2>2. QED BY <1>3, <2>1 DEF CheckItem, Creation, ParentChecked, ValidParent,
               KnownIn, Enabled, WalkRequest
<1>4. CASE LoadMove(w)
  <2>1. PICK s \in Step, p \in Parent, at \in {"walk", "write"},
             ids \in SUBSET Step :
          /\ request'[w] = Walking("move", at, s, p, ids)
          /\ Found(s) /\ p # s /\ ValidParent(step[s].home, p)
    BY <1>4 DEF LoadMove, Start, TypeOK
  <2>2. QED BY <1>4, <2>1 DEF LoadMove, Walking, ParentChecked, ValidParent,
               KnownIn, Enabled, CreateRequest, Found
<1>5. CASE Walk(w)
  <2>1. r \in WalkRequest
    BY <1>5 DEF Walk
  <2>2. \/ request'[w] = Idle
        \/ /\ request'[w].op = r.op
           /\ request'[w].step = r.step
           /\ request'[w].to = r.to
    BY <1>5, <2>1 DEF Walk, Finish, Continue, TypeOK, WalkRequest
  <2>3. ParentChecked(r)
    BY DEF ParentInv
  <2>4. UNCHANGED step
    BY <1>5 DEF Walk
  <2>5. QED BY <2>1, <2>2, <2>3, <2>4 DEF ParentChecked, KnownIn, WalkRequest,
               CreateRequest, Idle
<1>6. ASSUME NEW x, request'[w] = x,
             x = Idle \/ (x.op = "create" /\ x.at = "item")
                      \/ x.op \notin {"create", "move"}
      PROVE  ParentChecked(request[w])'
  <2>1. x \in CreateRequest => x.at # "write"
    BY <1>6 DEF Idle, CreateRequest
  <2>2. x \in WalkRequest => x.op # "move"
    BY <1>6 DEF Idle, WalkRequest
  <2>3. QED BY <1>6, <2>1, <2>2 DEF ParentChecked
<1>7. CASE LoadCreate(w) \/ WriteCreate(w)
  <2>1. request'[w] = Idle \/ \E sc : request'[w] = Creation("item", sc, Null)
    BY <1>7 DEF LoadCreate, WriteCreate, Start, Continue, Finish, TypeOK
  <2>2. ASSUME NEW sc, request'[w] = Creation("item", sc, Null)
        PROVE  request'[w].op = "create" /\ request'[w].at = "item"
    BY <2>2 DEF Creation
  <2>3. QED BY <1>6, <2>1, <2>2, IdleNamesNothing DEF ParentChecked
<1>8. CASE LoadDelete(w)
  <2>1. request'[w].op = "delete"
    BY <1>8 DEF LoadDelete, Start, Walking, TypeOK
  <2>2. QED BY <1>6, <2>1
<1>9. CASE LoadPart(w)
  <2>1. request'[w].op \in {"attach", "detach"}
    BY <1>9 DEF LoadPart, Start, TypeOK
  <2>2. QED BY <1>6, <2>1
<1>10. CASE LoadAddScenario(w) \/ LoadDropScenario(w) \/ LoadDropJourney(w)
  <2>1. CASE LoadDropScenario(w)
    <3>1. request'[w].op = "drop"
      BY <2>1 DEF LoadDropScenario, Start, TypeOK
    <3>2. QED BY <1>6, <3>1
  <2>2. CASE LoadAddScenario(w)
    <3>1. request'[w].op = "add"
      BY <2>2 DEF LoadAddScenario, Start, TypeOK
    <3>2. QED BY <1>6, <3>1
  <2>3. CASE LoadDropJourney(w)
    <3>1. request'[w].op = "drop all"
      BY <2>3 DEF LoadDropJourney, Start, TypeOK
    <3>2. QED BY <1>6, <3>1
  <2>4. QED BY <1>10, <2>1, <2>2, <2>3
<1>11. CASE request'[w] = Idle
  BY <1>11, IdleNamesNothing DEF ParentChecked
<1>12. QED
  BY <1>2, <1>3, <1>4, <1>5, <1>7, <1>8, <1>9, <1>10, <1>11, RequestSteps
  DEF Loads

\* However requests interleave, a step's parent is another step of its own
\* scenario: what each request has checked about the two rows cannot change.
THEOREM ParentInScenarioCorrect == Spec => []ParentInScenario
<1>1. Init => ParentInv
  BY NullIsNoRow
  DEF Init, ParentInv, FreeRowsEmpty, ParentsKnown, KnownIn, ParentChecked, Idle,
      CreateRequest, WalkRequest
<1>2. TypeOK /\ ParentInv /\ [Next]_vars => ParentInv'
  BY FreeRowsEmptyStep, ParentsKnownStep, ParentCheckedStep DEF ParentInv
<1>3. ParentInv => ParentInScenario
  BY DEF ParentInv, ParentsKnown, KnownIn, ParentInScenario
<1>4. QED BY <1>1, <1>2, <1>3, TypeCorrect, PTL DEF Spec

----------------------------------------------------------------------------
(* Requests: what they are, and what Serial makes of them.                 *)

LEMMA OpTellsKind ==
  ASSUME NEW r
  PROVE  /\ r \in CreateRequest => r.op = "create"
         /\ r \in WalkRequest => r.op \in {"move", "delete"}
         /\ r \in PartRequest => r.op \in {"attach", "detach"}
         /\ r \in DropRequest => r.op = "drop"
         /\ r \in JourneyRequest => r.op \in {"add", "drop all"}
BY DEF CreateRequest, WalkRequest, PartRequest, DropRequest, JourneyRequest

\* Which load it was, by the request it started.
LEMMA LoadedKind ==
  ASSUME TypeOK, NEW w \in Worker, Loads(w)
  PROVE  /\ request'[w].op = "create" => LoadCreate(w)
         /\ request'[w].op = "move" => LoadMove(w)
         /\ request'[w].op = "delete" => LoadDelete(w)
         /\ request'[w].op \in {"attach", "detach"} => LoadPart(w)
         /\ request'[w].op = "add" => LoadAddScenario(w)
         /\ request'[w].op = "drop" => LoadDropScenario(w)
         /\ request'[w].op = "drop all" => LoadDropJourney(w)
<1> USE DEF TypeOK, Start
<1>1. LoadCreate(w) => request'[w].op = "create"
  BY DEF LoadCreate, Creation
<1>2. LoadMove(w) => request'[w].op = "move"
  <2> SUFFICES ASSUME LoadMove(w) PROVE request'[w].op = "move"
    OBVIOUS
  <2>1. PICK at \in {"walk", "write"}, s \in Step, p \in Parent, ids \in SUBSET Step :
          request'[w] = Walking("move", at, s, p, ids)
    BY DEF LoadMove
  <2>2. QED BY <2>1 DEF Walking
<1>3. LoadDelete(w) => request'[w].op = "delete"
  BY DEF LoadDelete, Walking
<1>4. LoadPart(w) => request'[w].op \in {"attach", "detach"}
  <2> SUFFICES ASSUME LoadPart(w) PROVE request'[w].op \in {"attach", "detach"}
    OBVIOUS
  <2>1. PICK s \in Step, op \in {"attach", "detach"} :
          Found(s) /\ request'[w].op = op
    BY DEF LoadPart
  <2>2. QED BY <2>1
<1>5. LoadAddScenario(w) => request'[w].op = "add"
  BY DEF LoadAddScenario
<1>6. LoadDropScenario(w) => request'[w].op = "drop"
  BY DEF LoadDropScenario
<1>7. LoadDropJourney(w) => request'[w].op = "drop all"
  <2> SUFFICES ASSUME LoadDropJourney(w) PROVE request'[w].op = "drop all"
    OBVIOUS
  <2>1. QED BY DEF LoadDropJourney
<1>8. QED BY <1>1, <1>2, <1>3, <1>4, <1>5, <1>6, <1>7 DEF Loads

\* At most one request is in flight.
SoleRequest ==
  \A v, w \in Worker : request[v] # Idle /\ request[w] # Idle => v = w

LEMMA SoleRequestStep ==
  ASSUME TypeOK, Serial, SoleRequest, [Next]_vars
  PROVE  SoleRequest'
<1> USE DEF TypeOK
<1>1. CASE \E w \in Worker : Loads(w)
  <2>1. PICK w \in Worker : \E x : Start(w, x)
    BY <1>1 DEF Loads, LoadCreate, LoadMove, LoadDelete, LoadPart,
                LoadAddScenario, LoadDropScenario, LoadDropJourney
  <2>2. QED BY <2>1 DEF Start, CanStart, SoleRequest
<1>2. CASE \A w \in Worker : ~Loads(w)
  <2>1. ASSUME NEW w \in Worker, request[w] = Idle PROVE request'[w] = Idle
    BY <1>2, <2>1, RequestSteps, IdleNamesNothing DEF CheckItem, Walk, WriteCreate
  <2>2. QED BY <2>1 DEF SoleRequest
<1>3. QED BY <1>1, <1>2

\* With Serial, a request has the rows to itself from its load to its commit.
THEOREM SoleRequestCorrect ==
  ASSUME Serial
  PROVE  Spec => []SoleRequest
<1>1. Init => SoleRequest
  BY DEF Init, SoleRequest
<1>2. TypeOK /\ SoleRequest /\ [Next]_vars => SoleRequest'
  BY SoleRequestStep
<1>3. QED BY <1>1, <1>2, TypeCorrect, PTL DEF Spec

----------------------------------------------------------------------------
(* What the commits do to the rows.                                        *)

LEMMA DataWriters ==
  ASSUME [Next]_vars
  PROVE  \/ UNCHANGED <<journey, scenario, step, parts>>
         \/ \E w \in Worker :
              \/ WriteCreate(w) \/ WriteMove(w) \/ WriteDelete(w)
              \/ WritePart(w) \/ WriteAddScenario(w)
              \/ WriteDropScenario(w) \/ WriteDropJourney(w)
BY DEF Next, vars, CreateStep, TreeStep, PartStep, ScenarioStep, Abort,
       LoadCreate, CheckItem, LoadMove, LoadDelete, Walk, LoadPart,
       LoadAddScenario, LoadDropScenario, LoadDropJourney

\* What a creation does to the rows: n is new, and some followers of p now
\* follow it.
LEMMA CreateEffect ==
  ASSUME TypeOK, NEW w \in Worker, WriteCreate(w)
  PROVE  \E n \in Step :
           /\ step[n].state = "none"
           /\ n \notin Enabled /\ Enabled' = Enabled \cup {n}
           /\ step'[n].home = request[w].scenario
           /\ step'[n].parent = request[w].parent
           /\ \A s \in Step \ {n} :
                /\ step'[s].home = step[s].home
                /\ \/ step'[s].parent = step[s].parent
                   \/ step'[s].parent = n /\ step[s].parent = request[w].parent
<1> DEFINE p == request[w].parent
<1>1. PICK n \in Step :
        /\ step[n].state = "none"
        /\ step'[n] = [state |-> "enabled", home |-> request[w].scenario,
                       parent |-> p]
        /\ \A s \in Step \ {n} :
             \/ step'[s] = step[s]
             \/ step[s].parent = p /\ step'[s] = [step[s] EXCEPT !.parent = n]
  BY DEF WriteCreate, Adopted
<1>2. ASSUME NEW s \in Step \ {n}
      PROVE  /\ step'[s].state = step[s].state /\ step'[s].home = step[s].home
             /\ \/ step'[s].parent = step[s].parent
                \/ step'[s].parent = n /\ step[s].parent = p
  <2>1. step[s] \in StepRow
    BY DEF TypeOK
  <2>2. CASE step'[s] = step[s]
    BY <2>2
  <2>3. CASE step[s].parent = p /\ step'[s] = [step[s] EXCEPT !.parent = n]
    BY <2>1, <2>3 DEF StepRow
  <2>4. QED BY <1>1, <2>2, <2>3
<1>3. n \notin Enabled /\ Enabled' = Enabled \cup {n}
  BY <1>1, <1>2 DEF Enabled
<1>4. QED BY <1>1, <1>2, <1>3

\* A move changes one parent, to one that the request has checked.
LEMMA MoveEffect ==
  ASSUME TypeOK, ParentInv, NEW w \in Worker, WriteMove(w)
  PROVE  LET k == request[w].step
             q == request[w].to
         IN  /\ k \in Step /\ q \in Parent /\ q # k
             /\ KnownIn(step[k].home, q)
             /\ Enabled' = Enabled
             /\ step'[k].parent = q
             /\ \A s \in Step : /\ step'[s].home = step[s].home
                                /\ step'[s].state = step[s].state
                                /\ s # k => step'[s].parent = step[s].parent
<1> DEFINE k == request[w].step
           q == request[w].to
<1>1. /\ k \in Step /\ q \in Parent /\ request[w].op = "move"
      /\ step' = [step EXCEPT ![k].parent = q]
  BY DEF WriteMove, WalkRequest
<1>2. q # k /\ KnownIn(step[k].home, q)
  BY <1>1 DEF ParentInv, ParentChecked, WriteMove
<1>3. /\ step'[k].parent = q
      /\ \A s \in Step : /\ step'[s].home = step[s].home
                         /\ step'[s].state = step[s].state
                         /\ s # k => step'[s].parent = step[s].parent
  BY <1>1 DEF TypeOK, StepRow
<1>4. Enabled' = Enabled
  BY <1>3 DEF Enabled
<1>5. QED BY <1>1, <1>2, <1>3, <1>4

\* Disabling rows changes no parent.
LEMMA DisableEffect ==
  ASSUME TypeOK, NEW S, Disable(S)
  PROVE  /\ Enabled' = Enabled \ S
         /\ \A s \in Step : /\ step'[s].parent = step[s].parent
                            /\ step'[s].home = step[s].home
<1>1. ASSUME NEW s \in Step
      PROVE  /\ step'[s].parent = step[s].parent
             /\ step'[s].home = step[s].home
             /\ s \in Enabled' <=> s \in Enabled \ S
  <2>1. step[s] \in StepRow
    BY DEF TypeOK
  <2>2. CASE s \in S \cap Enabled
    <3>1. step'[s] = [step[s] EXCEPT !.state = "disabled"]
      BY <2>2 DEF Disable
    <3>2. QED BY <2>1, <2>2, <3>1 DEF Enabled, StepRow
  <2>3. CASE s \notin S \cap Enabled
    <3>1. step'[s] = step[s]
      BY <2>3 DEF Disable
    <3>2. QED BY <2>3, <3>1 DEF Enabled
  <2>4. QED BY <2>2, <2>3
<1>2. Enabled' = Enabled \ S
  BY <1>1 DEF Enabled
<1>3. QED BY <1>1, <1>2

----------------------------------------------------------------------------
(* The order of steps, however requests interleave.                        *)

\* Only a creation takes a free row.
LEMMA TakerOfFreeRow ==
  ASSUME TypeOK, [Next]_vars, NEW n \in Step,
         step[n].state = "none", step'[n].state = "enabled"
  PROVE  \E w \in Worker : WriteCreate(w)
<1>1. ASSUME NEW w \in Worker, WriteMove(w) PROVE FALSE
  BY <1>1 DEF WriteMove, TypeOK, StepRow
<1>2. ASSUME NEW S, Disable(S) PROVE FALSE
  BY <1>2 DEF Disable, Enabled
<1>3. QED
  BY <1>1, <1>2, StepWriters DEF WriteDelete, WriteDropScenario, WriteDropJourney

\* What is closed under the children after a creation was closed before it: a
\* follower that now comes after n came after p, and n is p's child.
LEMMA ClosedBefore ==
  ASSUME TypeOK, NEW w \in Worker, WriteCreate(w),
         NEW T \in SUBSET Step, (Children(T) \subseteq T)'
  PROVE  Children(T) \subseteq T
<1>1. SUFFICES ASSUME NEW c \in Enabled, step[c].parent \in T PROVE c \in T
  BY DEF Children
<1>2. PICK n \in Step :
        /\ n \notin Enabled /\ Enabled' = Enabled \cup {n}
        /\ step'[n].parent = request[w].parent
        /\ \A s \in Step \ {n} :
             \/ step'[s].parent = step[s].parent
             \/ step'[s].parent = n /\ step[s].parent = request[w].parent
  BY CreateEffect
<1>3. c \in Step \ {n} /\ c \in Enabled' /\ n \in Enabled'
  BY <1>2 DEF Enabled
<1>4. \A s \in Enabled' : step'[s].parent \in T => s \in T
  BY DEF Children
<1>5. CASE step'[c].parent = step[c].parent
  BY <1>1, <1>3, <1>4, <1>5
<1>6. CASE step'[c].parent = n /\ step[c].parent = request[w].parent
  BY <1>1, <1>2, <1>3, <1>4, <1>6
<1>7. QED BY <1>2, <1>3, <1>5, <1>6

\* However requests interleave, an insertion leaves every step after the steps
\* it came after.
THEOREM InsertKeepsOrderCorrect == Spec => InsertKeepsOrder
<1>1. TypeOK /\ [Next]_vars =>
        [(\E n \in Step : step[n].state = "none" /\ step'[n].state = "enabled")
           => \A x, y \in Enabled : Follows(x, y) => Follows(x, y)']_step
  <2> SUFFICES ASSUME TypeOK, [Next]_vars,
                      NEW n \in Step,
                      step[n].state = "none", step'[n].state = "enabled",
                      NEW x \in Enabled, NEW y \in Enabled, Follows(x, y),
                      NEW T \in SUBSET Step, x \in T, (Children(T) \subseteq T)'
               PROVE  y \in T
    BY DEF Follows
  <2>1. PICK w \in Worker : WriteCreate(w)
    BY TakerOfFreeRow
  <2>2. Children(T) \subseteq T
    BY <2>1, ClosedBefore
  <2>3. QED BY <2>2 DEF Follows
<1>2. QED BY <1>1, TypeCorrect, PTL DEF Spec, InsertKeepsOrder

----------------------------------------------------------------------------
(* Steps form a tree.                                                      *)

\* A move under another step, from its load to its commit, and its scenario.
Moves(r) == r \in WalkRequest /\ r.op = "move" /\ r.to # Null
Home(r) == step[r.step].home

\* What a lock on the scenario, taken by moves under another step and held
\* from the walk to the commit, would give; moves to the head need none, nor
\* do creations and deletions.
MovesApart ==
  \A v, w \in Worker :
    (/\ Moves(request[v]) /\ Moves(request[w])
     /\ request[w].at = "write"
     /\ Home(request[v]) = Home(request[w])) => v = w

\* T is the subtree of the moved step, or what it once was with all that has
\* come after it since: the walk has found a part of it, or will, and not the
\* step to move under.
Subtree(r, T) ==
  /\ r.frontier \subseteq r.ids /\ r.ids \subseteq T /\ r.step \in T
  /\ \A s \in T : step[s].state # "none" /\ step[s].home = Home(r)
  /\ Children(T \ r.frontier) \subseteq T
  /\ r.to \in T => r.to \in r.ids
  /\ r.at = "write" => r.frontier = {} /\ r.to \notin r.ids

Walked(r) == Moves(r) => \E T \in SUBSET Step : Subtree(r, T)

AcyclicInv ==
  /\ ParentInv
  /\ Acyclic
  /\ \A w \in Worker : Walked(request[w])

LEMMA ParentInvStep ==
  ASSUME TypeOK, ParentInv, [Next]_vars
  PROVE  ParentInv'
BY FreeRowsEmptyStep, ParentsKnownStep, ParentCheckedStep DEF ParentInv

\* Slotting a new step between a step and its followers closes no ring: a ring
\* through the new step was one before, without it.
LEMMA CreateKeepsAcyclic ==
  ASSUME TypeOK, ParentInv, Acyclic, NEW w \in Worker, WriteCreate(w)
  PROVE  Acyclic'
<1> DEFINE p == request[w].parent
<1>1. PICK n \in Step :
        /\ step[n].state = "none" /\ Enabled' = Enabled \cup {n}
        /\ step'[n].parent = p
        /\ \A s \in Step \ {n} :
             \/ step'[s].parent = step[s].parent
             \/ step'[s].parent = n /\ step[s].parent = p
  BY CreateEffect
<1>2. p # n /\ \A s \in Step : step[s].parent # n
  <2>1. ASSUME NEW sc, NEW q, KnownIn(sc, q) PROVE q # n
    BY <1>1, <2>1, NullIsNoRow DEF KnownIn
  <2>2. KnownIn(request[w].scenario, p)
    BY DEF WriteCreate, ParentInv, ParentChecked
  <2>3. QED BY <2>1, <2>2 DEF ParentInv, ParentsKnown
<1> SUFFICES ASSUME NEW S, S \subseteq Enabled \cup {n}, S # {},
                    \A s \in S : step'[s].parent \in S
             PROVE  FALSE
  BY <1>1 DEF Acyclic
<1>3. S \ {n} # {}
  BY <1>1, <1>2
<1>4. \A s \in S \ {n} : step[s].parent \in S \ {n}
  <2>1. n \in S => p \in S
    BY <1>1
  <2>2. QED BY <1>1, <1>2, <2>1 DEF Enabled
<1>5. S \ {n} \in SUBSET Enabled
  OBVIOUS
<1>6. QED BY <1>3, <1>4, <1>5 DEF Acyclic

\* Moving a step under one its walk did not find closes no ring: what a ring
\* would hold outside the subtree was one before.
LEMMA MoveKeepsAcyclic ==
  ASSUME TypeOK, AcyclicInv, NEW w \in Worker, WriteMove(w)
  PROVE  Acyclic'
<1> DEFINE k == request[w].step
           q == request[w].to
<1>1. /\ k \in Step /\ Enabled' = Enabled
      /\ step'[k].parent = q
      /\ \A s \in Step : s # k => step'[s].parent = step[s].parent
  BY MoveEffect DEF AcyclicInv
<1>2. q = Null \/ \E T \in SUBSET Step :
                    k \in T /\ q \notin T /\ Children(T) \subseteq T
  <2> SUFFICES ASSUME q # Null
               PROVE  \E T \in SUBSET Step :
                        k \in T /\ q \notin T /\ Children(T) \subseteq T
    OBVIOUS
  <2>1. Moves(request[w]) /\ request[w].at = "write"
    BY DEF WriteMove, Moves
  <2>2. PICK T \in SUBSET Step : Subtree(request[w], T)
    BY <2>1 DEF AcyclicInv, Walked
  <2>3. k \in T /\ q \notin T
    BY <2>1, <2>2 DEF Subtree
  <2>4. T \ request[w].frontier = T
    BY <2>1, <2>2 DEF Subtree
  <2>5. Children(T) \subseteq T
    BY <2>2, <2>4 DEF Subtree
  <2>6. QED BY <2>3, <2>5
<1> SUFFICES ASSUME NEW S \in SUBSET Enabled, S # {},
                    \A s \in S : step'[s].parent \in S
             PROVE  FALSE
  BY <1>1 DEF Acyclic
<1>3. ASSUME NEW R \in SUBSET Enabled, R # {},
             \A s \in R : step[s].parent \in R
      PROVE  FALSE
  BY <1>3 DEF AcyclicInv, Acyclic
<1>4. CASE k \notin S
  BY <1>1, <1>3, <1>4 DEF Enabled
<1>5. CASE k \in S
  <2>1. q \in S /\ q # Null
    BY <1>1, <1>5, NullIsNoRow DEF Enabled
  <2>2. PICK T \in SUBSET Step : k \in T /\ q \notin T /\ Children(T) \subseteq T
    BY <1>2, <2>1
  <2>3. \A s \in S \ T : step[s].parent \in S \ T
    BY <1>1, <2>2 DEF Children, Enabled
  <2>4. QED BY <1>3, <2>1, <2>2, <2>3
<1>6. QED BY <1>4, <1>5

LEMMA AcyclicStep ==
  ASSUME TypeOK, AcyclicInv, [Next]_vars
  PROVE  Acyclic'
<1>1. ASSUME NEW S, Disable(S) PROVE Acyclic'
  <2>1. \A T \in SUBSET Enabled' : T \in SUBSET Enabled
    BY <1>1, DisableEffect
  <2>2. \A s \in Step : step'[s].parent = step[s].parent
    BY <1>1, DisableEffect
  <2>3. QED BY <2>1, <2>2 DEF AcyclicInv, Acyclic, Enabled
<1>2. CASE UNCHANGED step
  BY <1>2 DEF AcyclicInv, Acyclic, Enabled
<1>3. QED
  BY <1>1, <1>2, CreateKeepsAcyclic, MoveKeepsAcyclic, StepWriters
  DEF AcyclicInv, WriteDelete, WriteDropScenario, WriteDropJourney

\* While others commit, a subtree grows by the steps created inside it; what
\* else they do, moves into it set apart, only takes steps away.
LEMMA SubtreeStays ==
  ASSUME TypeOK, ParentInv, MovesApart, [Next]_vars,
         NEW w \in Worker, Moves(request[w]), request'[w] = request[w],
         NEW T \in SUBSET Step, Subtree(request[w], T)
  PROVE  \E U \in SUBSET Step : Subtree(request[w], U)'
<1> DEFINE r == request[w]
<1>1. /\ r.frontier \subseteq r.ids /\ r.ids \subseteq T /\ r.step \in T
      /\ \A s \in T : step[s].state # "none" /\ step[s].home = Home(r)
      /\ Children(T \ r.frontier) \subseteq T
      /\ r.to \in T => r.to \in r.ids
      /\ r.at = "write" => r.frontier = {} /\ r.to \notin r.ids
  BY DEF Subtree
<1>2. /\ \A s \in T : step'[s].state # "none" /\ step'[s].home = step[s].home
      /\ Home(r)' = Home(r)
  BY <1>1, RowsAreKept DEF RowsKept, Home
<1>3. ASSUME Children(T \ r.frontier)' \subseteq T
      PROVE  Subtree(r, T)'
  BY <1>1, <1>2, <1>3 DEF Subtree
<1>4. ASSUME \A c \in Enabled' : c \in Enabled /\ step'[c].parent = step[c].parent
      PROVE  Subtree(r, T)'
  <2>1. \A c \in Enabled' : step'[c].parent \in T \ r.frontier => c \in T
    BY <1>1, <1>4 DEF Children
  <2>2. Children(T \ r.frontier)' \subseteq T
    BY <2>1, <1>2 DEF Children
  <2>3. QED BY <1>3, <2>2
<1>5. ASSUME NEW v \in Worker, WriteCreate(v)
      PROVE  \E U \in SUBSET Step : Subtree(r, U)'
  <2> DEFINE p == request[v].parent
  <2>1. PICK n \in Step :
          /\ step[n].state = "none" /\ Enabled' = Enabled \cup {n}
          /\ step'[n].home = request[v].scenario /\ step'[n].parent = p
          /\ \A s \in Step \ {n} :
               \/ step'[s].parent = step[s].parent
               \/ step'[s].parent = n /\ step[s].parent = p
    BY <1>5, CreateEffect
  <2>2. n \notin T
    BY <1>1, <2>1
  <2>3. CASE p \in T \ r.frontier
    <3> DEFINE U == T \cup {n}
    <3>1. \A c \in Enabled' : step'[c].parent \in U \ r.frontier => c \in U
      <4> SUFFICES ASSUME NEW c \in Enabled, step'[c].parent \in U, c # n,
                          step'[c].parent \notin r.frontier
                   PROVE  c \in T
        BY <2>1
      <4>1. c \in Step
        BY DEF Enabled
      <4>2. step[c].parent \in T \ r.frontier
        <5>1. CASE step'[c].parent = n /\ step[c].parent = p
          BY <2>3, <5>1
        <5>2. CASE step'[c].parent = step[c].parent
          <6>1. KnownIn(step[c].home, step[c].parent)
            BY <4>1 DEF ParentInv, ParentsKnown
          <6>2. step[c].parent # n
            BY <2>1, <6>1, NullIsNoRow DEF KnownIn
          <6>3. QED BY <5>2, <6>2
        <5>3. QED BY <2>1, <4>1, <5>1, <5>2
      <4>3. QED BY <1>1, <4>2 DEF Children
    <3>2. step'[n].state # "none" /\ step'[n].home = Home(r)
      <4>1. n \in Enabled'
        BY <2>1
      <4>2. KnownIn(request[v].scenario, p)
        BY <1>5 DEF WriteCreate, ParentInv, ParentChecked
      <4>3. request[v].scenario = Home(r)
        BY <1>1, <2>3, <4>2, NullIsNoRow DEF KnownIn
      <4>4. QED BY <2>1, <4>1, <4>3 DEF Enabled
    <3>3. r.to # n
      <4>1. KnownIn(Home(r), r.to)
        BY DEF ParentInv, ParentChecked, Moves, Home
      <4>2. QED BY <2>1, <4>1, NullIsNoRow DEF KnownIn
    <3>4. Children(U \ r.frontier)' \subseteq U
      BY <3>1 DEF Children
    <3>5. Subtree(r, U)'
      BY <1>1, <1>2, <3>2, <3>3, <3>4 DEF Subtree
    <3>6. QED BY <3>5
  <2>4. CASE p \notin T \ r.frontier
    <3>1. \A c \in Enabled' : step'[c].parent \in T \ r.frontier => c \in T
      BY <1>1, <2>1, <2>2, <2>4 DEF Children, Enabled
    <3>2. Children(T \ r.frontier)' \subseteq T
      BY <3>1 DEF Children
    <3>3. QED BY <1>3, <3>2
  <2>5. QED BY <2>3, <2>4
<1>6. ASSUME NEW v \in Worker, WriteMove(v)
      PROVE  Subtree(r, T)'
  <2> DEFINE k == request[v].step
             q == request[v].to
  <2>1. /\ KnownIn(step[k].home, q) /\ Enabled' = Enabled
        /\ step'[k].parent = q
        /\ \A s \in Step : s # k => step'[s].parent = step[s].parent
    BY <1>6, MoveEffect
  <2>2. q \notin T
    <3>1. v # w
      BY <1>6, IdleNamesNothing DEF WriteMove, Finish, TypeOK
    <3>2. CASE q = Null
      BY <3>2, NullIsNoRow
    <3>3. CASE q # Null
      <4>1. Moves(request[v]) /\ request[v].at = "write"
        BY <1>6, <3>3 DEF WriteMove, Moves
      <4>2. Home(request[v]) # Home(r)
        BY <3>1, <4>1 DEF MovesApart
      <4>3. QED BY <1>1, <2>1, <3>3, <4>2 DEF KnownIn, Home
    <3>4. QED BY <3>2, <3>3
  <2>3. \A c \in Enabled' : step'[c].parent \in T \ r.frontier => c \in T
    BY <1>1, <2>1, <2>2 DEF Children, Enabled
  <2>4. Children(T \ r.frontier)' \subseteq T
    BY <2>3 DEF Children
  <2>5. QED BY <1>3, <2>4
<1>7. ASSUME NEW S, Disable(S)
      PROVE  Subtree(r, T)'
  BY <1>4, <1>7, DisableEffect DEF Enabled
<1>8. CASE UNCHANGED step
  BY <1>4, <1>8 DEF Enabled
<1>9. QED
  BY <1>5, <1>6, <1>7, <1>8, StepWriters
  DEF WriteDelete, WriteDropScenario, WriteDropJourney

\* A query of the walk finds steps of the subtree, and the last one leaves
\* none to find.
LEMMA WalkInSubtree ==
  ASSUME TypeOK, ParentInv, NEW w \in Worker, Walk(w), request'[w] # Idle,
         Moves(request[w]), NEW T \in SUBSET Step, Subtree(request[w], T)
  PROVE  \E U \in SUBSET Step : Subtree(request[w], U)'
<1> PICK fresh \in SUBSET Step : fresh = Fresh(request[w])
  BY DEF Fresh, Children, Enabled
<1> DEFINE r == request[w]
           ids == r.ids \cup fresh
           U == T \cup fresh
<1>1. /\ r.frontier \subseteq r.ids /\ r.ids \subseteq T /\ r.step \in T
      /\ \A s \in T : step[s].state # "none" /\ step[s].home = Home(r)
      /\ Children(T \ r.frontier) \subseteq T
      /\ r.to \in T => r.to \in r.ids
  BY DEF Subtree
<1>2. UNCHANGED step /\ r \in WalkRequest /\ r.at = "walk"
  BY DEF Walk
<1>3. /\ request'[w].op = r.op /\ request'[w].step = r.step
      /\ request'[w].to = r.to
      /\ \/ /\ request'[w].at = "walk"
            /\ request'[w].ids = ids /\ request'[w].frontier = fresh
         \/ /\ request'[w].at = "write" /\ fresh = {} /\ ~Refused(r, ids)
            /\ request'[w].ids = r.ids /\ request'[w].frontier = {}
  <2>1. \/ request'[w] = [r EXCEPT !.ids = ids, !.frontier = fresh]
        \/ /\ fresh = {} /\ ~Refused(r, ids)
           /\ request'[w] = [r EXCEPT !.at = "write", !.frontier = {}]
    BY DEF Walk, Continue, Finish, TypeOK
  <2>2. QED BY <1>2, <2>1 DEF WalkRequest
<1>4. request'[w].ids = ids /\ request'[w].frontier = fresh
  BY <1>3
<1>5. fresh \subseteq Enabled
  BY DEF Fresh, Children
<1>6. \A s \in fresh : step[s].state # "none" /\ step[s].home = Home(r)
  <2> SUFFICES ASSUME NEW s \in fresh
               PROVE  step[s].state # "none" /\ step[s].home = Home(r)
    OBVIOUS
  <2>1. s \in Enabled /\ step[s].parent \in r.frontier
    BY DEF Fresh, Children
  <2>2. KnownIn(step[s].home, step[s].parent) /\ step[s].parent # Null
    BY <1>1, <2>1, NullIsNoRow DEF ParentInv, ParentsKnown, Enabled
  <2>3. QED BY <1>1, <2>1, <2>2 DEF KnownIn, Enabled
<1>7. Children(U \ fresh) \subseteq U
  BY <1>1 DEF Children, Fresh
<1>8. request'[w].at = "write" => request'[w].to \notin request'[w].ids
  BY <1>3 DEF Refused, Moves
<1>9. Children(U \ request[w].frontier)' \subseteq U
  BY <1>2, <1>4, <1>7 DEF Children, Enabled
<1>10. Subtree(request[w], U)'
  <2>1. /\ request'[w].frontier \subseteq request'[w].ids
        /\ request'[w].ids \subseteq U /\ request'[w].step \in U
    BY <1>1, <1>3, <1>4
  <2>2. \A s \in U : step'[s].state # "none" /\ step'[s].home = Home(request[w])'
    BY <1>1, <1>2, <1>3, <1>6 DEF Home
  <2>3. request'[w].to \in U => request'[w].to \in request'[w].ids
    BY <1>1, <1>3, <1>4
  <2>4. request'[w].at = "write" => request'[w].frontier = {}
    BY <1>3
  <2>5. QED BY <1>8, <1>9, <2>1, <2>2, <2>3, <2>4 DEF Subtree
<1>11. QED BY <1>10

\* A walk starts from the step alone.
LEMMA WalkedStep ==
  ASSUME TypeOK, MovesApart, AcyclicInv, [Next]_vars, NEW w \in Worker
  PROVE  Walked(request[w])'
<1> SUFFICES ASSUME Moves(request[w])'
             PROVE  \E U \in SUBSET Step : Subtree(request[w], U)'
  BY DEF Walked
<1>1. ParentInv /\ Walked(request[w])
  BY DEF AcyclicInv
<1>2. request'[w] # Idle /\ request'[w].op = "move" /\ request'[w].to # Null
  BY IdleNamesNothing DEF Moves
<1>3. CASE request'[w] = request[w]
  <2>1. Moves(request[w])
    BY <1>3 DEF Moves
  <2>2. QED BY <1>1, <1>3, <2>1, SubtreeStays DEF Walked
<1>4. CASE Walk(w)
  <2>1. Moves(request[w])
    <3>1. request[w] \in WalkRequest
      BY <1>4 DEF Walk
    <3>2. request'[w].op = request[w].op /\ request'[w].to = request[w].to
      BY <1>2, <1>4, <3>1 DEF Walk, Continue, Finish, WalkRequest, TypeOK
    <3>3. QED BY <1>2, <3>1, <3>2 DEF Moves
  <2>2. QED BY <1>1, <1>2, <1>4, <2>1, WalkInSubtree DEF Walked
<1>5. CASE Loads(w)
  <2>1. LoadMove(w)
    BY <1>2, <1>5, LoadedKind
  <2>2. PICK s \in Step, p \in Parent :
          /\ Found(s) /\ p # s
          /\ \/ p = Null /\ request'[w] = Walking("move", "write", s, p, {})
             \/ p # Null /\ request'[w] = Walking("move", "walk", s, p, {s})
    BY <2>1 DEF LoadMove, Start, TypeOK
  <2>3. /\ request'[w].at = "walk" /\ request'[w].step = s /\ request'[w].to = p
        /\ request'[w].ids = {s} /\ request'[w].frontier = {s}
    BY <1>2, <2>2 DEF Walking
  <2>4. UNCHANGED step /\ Children({})' = {}
    BY <2>1 DEF LoadMove, Children
  <2>5. Subtree(request[w], {s})'
    <3>1. {s} \ request'[w].frontier = {}
      BY <2>3
    <3>2. Children({s} \ request[w].frontier)' = {}
      BY <3>1 DEF Children
    <3>3. step'[s].state # "none" /\ Home(request[w])' = step'[s].home
      BY <2>2, <2>3, <2>4 DEF Found, Enabled, Home
    <3>4. QED BY <2>2, <2>3, <3>2, <3>3 DEF Subtree
  <2>6. QED BY <2>5
<1>6. CASE CheckItem(w) \/ WriteCreate(w)
  <2>1. PICK at, sc, p : request'[w] = Creation(at, sc, p)
    BY <1>2, <1>6 DEF CheckItem, WriteCreate, Continue, Finish, TypeOK
  <2>2. request'[w].op = "create"
    BY <2>1 DEF Creation
  <2>3. QED BY <1>2, <2>2
<1>7. QED BY <1>2, <1>3, <1>4, <1>5, <1>6, RequestSteps

LEMMA ParentInvInit == Init => ParentInv
BY NullIsNoRow
DEF Init, ParentInv, FreeRowsEmpty, ParentsKnown, KnownIn, ParentChecked, Idle,
    CreateRequest, WalkRequest

LEMMA AcyclicInvInit == Init => AcyclicInv
<1> SUFFICES ASSUME Init PROVE AcyclicInv
  OBVIOUS
<1>1. Enabled = {}
  BY DEF Init, Enabled
<1>2. \A w \in Worker : Walked(request[w])
  BY IdleNamesNothing DEF Init, Walked, Moves
<1>3. QED BY <1>1, <1>2, ParentInvInit DEF AcyclicInv, Acyclic

\* However requests overlap otherwise, no steps close into a ring as long as
\* no move under another step is ready to commit while another such move in
\* its scenario is under way: the walk of update() finds every descendant, and
\* what other requests put under the step meanwhile is not the new parent.
THEOREM AcyclicApart == Spec /\ []MovesApart => []Acyclic
<1>1. TypeOK /\ MovesApart /\ AcyclicInv /\ [Next]_vars => AcyclicInv'
  BY ParentInvStep, AcyclicStep, WalkedStep DEF AcyclicInv
<1>2. AcyclicInv => Acyclic
  BY DEF AcyclicInv
<1>3. QED BY <1>1, <1>2, AcyclicInvInit, TypeCorrect, PTL DEF Spec

LEMMA SoleMove ==
  ASSUME SoleRequest
  PROVE  MovesApart
BY IdleNamesNothing DEF SoleRequest, MovesApart, Moves

\* So it is when requests do not overlap.
THEOREM AcyclicCorrect ==
  ASSUME Serial
  PROVE  Spec => []Acyclic
<1>1. Spec => []SoleRequest
  BY SoleRequestCorrect
<1>2. SoleRequest => MovesApart
  BY SoleMove
<1>3. QED BY <1>1, <1>2, AcyclicApart, PTL

----------------------------------------------------------------------------
(* Nothing outlives what it hangs off.                                     *)

Deletes(r) == r \in WalkRequest /\ r.op = "delete"

\* A creation about to commit in scenario sc, or a move under a step of it.
Grows(r, sc) ==
  \/ r \in CreateRequest /\ r.at = "write" /\ r.scenario = sc
  \/ Moves(r) /\ Home(r) = sc

DropsJourney(r) == r \in JourneyRequest /\ r.op = "drop all"

DropsScenario(r, sc) == (r \in DropRequest /\ r.scenario = sc) \/ DropsJourney(r)

Attaches(r) == r \in PartRequest /\ r.op = "attach"
AddsScenario(r) == r \in JourneyRequest /\ r.op = "add"

\* What a lock on the scenario or the journey, shared by those that add to it
\* and taken alone by those that delete in it, would give.
DropsApart ==
  \A v, w \in Worker :
    /\ Deletes(request[v]) =>
         /\ ~Grows(request[w], Home(request[v]))
         /\ Attaches(request[w]) /\ request[v].at = "write"
              => request[w].step \notin request[v].ids
    /\ request[w] \in CreateRequest
         => ~DropsScenario(request[v], request[w].scenario)
    /\ AddsScenario(request[w]) => ~DropsJourney(request[v])
    /\ Attaches(request[w]) => ~DropsScenario(request[v], Home(request[w]))

\* The ids a deletion has found are of one scenario, and closed under the
\* children, save for those of the frontier.
Gathered(r) ==
  /\ r.frontier \subseteq r.ids
  /\ step[r.step].state # "none"
  /\ \A s \in r.ids : step[s].state # "none" /\ step[s].home = Home(r)
  /\ Children(r.ids \ r.frontier) \subseteq r.ids
  /\ r.at = "write" => r.frontier = {}

\* What a request adds to is still enabled, unless a deletion has taken the
\* moved step with its new parent, and what it deletes is all there is.
Placed(r) ==
  /\ r \in CreateRequest =>
       /\ Open(r.scenario)
       /\ r.at = "write" => r.parent \in Enabled \cup {Null}
  /\ Moves(r) => r.to \in Enabled \/ r.step \notin Enabled
  /\ Deletes(r) => Gathered(r)
  /\ Attaches(r) => r.step \in Enabled
  /\ AddsScenario(r) => journey

DropInv ==
  /\ ParentInv
  /\ NothingOutlivesItsParent
  /\ \A w \in Worker : Placed(request[w])

LEMMA NothingOutlivesStep ==
  ASSUME TypeOK, DropInv, [Next]_vars
  PROVE  NothingOutlivesItsParent'
<1> USE DEF NothingOutlivesItsParent, ScenariosUnderJourney, StepsUnderSteps,
            PartsUnderSteps
<1>1. ASSUME NEW w \in Worker, WriteCreate(w) PROVE NothingOutlivesItsParent'
  <2>1. /\ Open(request[w].scenario)
        /\ request[w].parent \in Enabled \cup {Null}
        /\ request[w].scenario \in Scenario
    BY <1>1 DEF WriteCreate, DropInv, Placed, CreateRequest
  <2>2. UNCHANGED <<journey, scenario, parts>>
    BY <1>1 DEF WriteCreate
  <2>3. QED
    BY <1>1, <2>1, <2>2, CreateEffect DEF DropInv, Open, Enabled
<1>2. ASSUME NEW w \in Worker, WriteMove(w) PROVE NothingOutlivesItsParent'
  <2> DEFINE k == request[w].step
             q == request[w].to
  <2>1. k \in Enabled => q \in Enabled \cup {Null}
    BY <1>2 DEF WriteMove, Moves, DropInv, Placed
  <2>2. /\ Enabled' = Enabled
        /\ step'[k].parent = q
        /\ \A s \in Step : /\ step'[s].home = step[s].home
                           /\ s # k => step'[s].parent = step[s].parent
    BY <1>2, MoveEffect DEF DropInv
  <2>3. QED BY <1>2, <2>1, <2>2 DEF WriteMove, DropInv, Enabled
<1>3. ASSUME NEW w \in Worker, WriteDelete(w) PROVE NothingOutlivesItsParent'
  <2>1. PICK ids : /\ Disable(ids) /\ parts' = parts \ ids
                  /\ Children(ids) \subseteq ids
    <3>1. Gathered(request[w]) /\ request[w].at = "write"
      BY <1>3 DEF WriteDelete, Deletes, DropInv, Placed
    <3>2. request[w].ids \ request[w].frontier = request[w].ids
      BY <3>1 DEF Gathered
    <3>3. QED BY <1>3, <3>1, <3>2 DEF WriteDelete, Doomed, Gathered
  <2>2. UNCHANGED <<journey, scenario>>
    BY <1>3 DEF WriteDelete
  <2>3. QED
    BY <2>1, <2>2, DisableEffect DEF DropInv, Children, Enabled
<1>4. ASSUME NEW w \in Worker, WriteDropScenario(w)
      PROVE  NothingOutlivesItsParent'
  <2>1. PICK sc : /\ scenario' = [scenario EXCEPT ![sc] = "disabled"]
                 /\ Disable(StepsOf({sc})) /\ parts' = parts \ StepsOf({sc})
                 /\ UNCHANGED journey
    BY <1>4 DEF WriteDropScenario
  <2>2. \A s \in Enabled : step[s].parent # Null =>
          (step[s].home = sc <=> step[step[s].parent].home = sc)
    BY DEF DropInv, ParentInv, ParentsKnown, KnownIn, Enabled
  <2>3. \A s \in Enabled : step[s].home = sc <=> s \in StepsOf({sc})
    BY DEF StepsOf, Enabled
  <2>4. \A s \in Enabled : step[s].home \in Scenario
    BY DEF DropInv, ParentInv, FreeRowsEmpty, Enabled
  <2>5. /\ Enabled' = Enabled \ StepsOf({sc})
        /\ \A s \in Step : /\ step'[s].parent = step[s].parent
                           /\ step'[s].home = step[s].home
    BY <2>1, DisableEffect
  <2>6. QED BY <2>1, <2>2, <2>3, <2>4, <2>5 DEF DropInv, Enabled, TypeOK
<1>5. ASSUME NEW w \in Worker, WriteDropJourney(w)
      PROVE  NothingOutlivesItsParent'
  <2>1. Enabled' = {}
    <3>1. Enabled \subseteq StepsOf(Scenario)
      BY DEF DropInv, ParentInv, FreeRowsEmpty, Enabled, StepsOf
    <3>2. QED BY <1>5, <3>1, DisableEffect DEF WriteDropJourney
  <2>2. parts' = {}
    BY <1>5 DEF WriteDropJourney, DropInv, ParentInv, FreeRowsEmpty, Enabled, StepsOf
  <2>3. \A sc \in Scenario : scenario'[sc] # "enabled"
    BY <1>5 DEF WriteDropJourney, TypeOK
  <2>4. QED BY <2>1, <2>2, <2>3
<1>6. ASSUME NEW w \in Worker, WritePart(w) \/ WriteAddScenario(w)
      PROVE  NothingOutlivesItsParent'
  <2>1. CASE WritePart(w)
    <3>1. Attaches(request[w]) => request[w].step \in Enabled
      BY DEF DropInv, Placed
    <3>2. QED BY <2>1, <3>1 DEF WritePart, Attaches, DropInv, Enabled
  <2>2. CASE WriteAddScenario(w)
    <3>1. request[w] \in JourneyRequest /\ request[w].op = "add"
          /\ UNCHANGED <<journey, step, parts>>
      BY <2>2 DEF WriteAddScenario
    <3>2. journey
      BY <3>1 DEF DropInv, Placed, AddsScenario
    <3>3. PICK n \in Scenario : scenario' = [scenario EXCEPT ![n] = "enabled"]
      BY <2>2 DEF WriteAddScenario
    <3>4. \A sc \in Scenario : scenario[sc] = "enabled" => scenario'[sc] = "enabled"
      BY <3>3 DEF TypeOK
    <3>5. \A s \in Enabled : step[s].home \in Scenario
      BY DEF DropInv, ParentInv, FreeRowsEmpty, Enabled
    <3>6. Enabled' = Enabled
      BY <3>1 DEF Enabled
    <3>7. ScenariosUnderJourney'
      BY <3>1, <3>2, <3>4, <3>5, <3>6
      DEF DropInv, NothingOutlivesItsParent, ScenariosUnderJourney
    <3>8. StepsUnderSteps' /\ PartsUnderSteps'
      BY <3>1, <3>6
      DEF DropInv, NothingOutlivesItsParent, StepsUnderSteps, PartsUnderSteps
    <3>9. QED BY <3>7, <3>8 DEF NothingOutlivesItsParent
  <2>3. QED BY <1>6, <2>1, <2>2
<1>7. CASE UNCHANGED <<journey, scenario, step, parts>>
  BY <1>7 DEF DropInv, Enabled
<1>8. QED
  BY <1>1, <1>2, <1>3, <1>4, <1>5, <1>6, <1>7, DataWriters

\* What is above stays, and a step stays, unless a deletion of it commits.
LEMMA AboveStays ==
  ASSUME TypeOK, [Next]_vars
  PROVE  /\ journey => journey' \/ \E v \in Worker : WriteDropJourney(v)
         /\ \A sc \in Scenario : Open(sc) => Open(sc)' \/
              \E v \in Worker :
                \/ WriteDropJourney(v)
                \/ WriteDropScenario(v) /\ request[v].scenario = sc
         /\ \A s \in Enabled : s \in Enabled' \/
              \E v \in Worker :
                \/ WriteDelete(v) /\ s \in request[v].ids
                \/ WriteDropJourney(v)
                \/ WriteDropScenario(v) /\ request[v].scenario = step[s].home
<1>1. ASSUME NEW v \in Worker, WriteCreate(v)
      PROVE  UNCHANGED <<journey, scenario>> /\ Enabled \subseteq Enabled'
  BY <1>1, CreateEffect DEF WriteCreate
<1>2. ASSUME NEW v \in Worker, WriteMove(v)
      PROVE  UNCHANGED <<journey, scenario>> /\ Enabled' = Enabled
  BY <1>2 DEF WriteMove, Enabled, TypeOK, StepRow
<1>3. ASSUME NEW v \in Worker, WriteDelete(v)
      PROVE  UNCHANGED <<journey, scenario>> /\ Enabled' = Enabled \ request[v].ids
  BY <1>3, DisableEffect DEF WriteDelete, Doomed
<1>4. ASSUME NEW v \in Worker, WriteDropScenario(v)
      PROVE  /\ UNCHANGED journey
             /\ \A sc \in Scenario \ {request[v].scenario} : scenario'[sc] = scenario[sc]
             /\ \A s \in Enabled : s \in Enabled' \/ step[s].home = request[v].scenario
  <2>1. Enabled' = Enabled \ StepsOf({request[v].scenario})
    BY <1>4, DisableEffect DEF WriteDropScenario
  <2>2. QED BY <1>4, <2>1 DEF WriteDropScenario, StepsOf, TypeOK
<1>5. ASSUME NEW v \in Worker, WriteAddScenario(v)
      PROVE  /\ UNCHANGED journey /\ Enabled' = Enabled
             /\ \A sc \in Scenario : scenario[sc] = "enabled" => scenario'[sc] = "enabled"
  BY <1>5 DEF WriteAddScenario, Enabled, TypeOK
<1>6. ASSUME UNCHANGED <<journey, scenario, step>>
      PROVE  /\ journey' = journey /\ Enabled' = Enabled
             /\ \A sc \in Scenario : Open(sc)' = Open(sc)
  BY <1>6 DEF Enabled, Open
<1>7. CASE \E v \in Worker : WriteDropJourney(v)
  BY <1>7
<1>8. CASE \E v \in Worker : WriteDropScenario(v)
  BY <1>4, <1>8 DEF Open
<1>9. CASE \E v \in Worker : WriteDelete(v)
  BY <1>3, <1>9 DEF Open
<1>10. CASE \E v \in Worker : WriteCreate(v) \/ WriteMove(v) \/ WriteAddScenario(v)
  BY <1>1, <1>2, <1>5, <1>10 DEF Open
<1>11. QED
  BY <1>6, <1>7, <1>8, <1>9, <1>10, DataWriters DEF WritePart

\* Only a free row becomes enabled.
LEMMA EnabledWasFree ==
  ASSUME TypeOK, [Next]_vars, NEW s \in Enabled'
  PROVE  s \in Enabled \/ step[s].state = "none"
<1>1. ASSUME NEW v \in Worker, WriteCreate(v)
      PROVE  s \in Enabled \/ step[s].state = "none"
  BY <1>1, CreateEffect
<1>2. ASSUME NEW v \in Worker, WriteMove(v) PROVE s \in Enabled
  BY <1>2 DEF WriteMove, Enabled, TypeOK, StepRow
<1>3. ASSUME NEW S, Disable(S) PROVE s \in Enabled
  BY <1>3, DisableEffect
<1>4. CASE UNCHANGED step
  BY <1>4 DEF Enabled
<1>5. QED
  BY <1>1, <1>2, <1>3, <1>4, StepWriters
  DEF WriteDelete, WriteDropScenario, WriteDropJourney

\* What a deletion has gathered stays closed: what grows is elsewhere.
LEMMA GatheredStays ==
  ASSUME TypeOK, ParentInv, DropsApart, [Next]_vars,
         NEW w \in Worker, Deletes(request[w]), request'[w] = request[w],
         Gathered(request[w])
  PROVE  Gathered(request[w])'
<1> DEFINE r == request[w]
<1>1. /\ r.ids \subseteq Step /\ r.step \in Step
      /\ r.frontier \subseteq r.ids /\ step[r.step].state # "none"
      /\ \A s \in r.ids : step[s].state # "none" /\ step[s].home = Home(r)
      /\ Children(r.ids \ r.frontier) \subseteq r.ids
      /\ r.at = "write" => r.frontier = {}
  BY DEF Gathered, Deletes, WalkRequest
<1>2. /\ Home(r)' = Home(r) /\ step'[r.step].state # "none"
      /\ \A s \in r.ids : step'[s].state # "none" /\ step'[s].home = step[s].home
  BY <1>1, RowsAreKept DEF RowsKept, Home
<1>3. ASSUME \A c \in Enabled' :
               step'[c].parent \in r.ids =>
                 c \in Enabled /\ step[c].parent = step'[c].parent
      PROVE  Gathered(r)'
  <2>1. \A c \in Enabled' : step'[c].parent \in r.ids \ r.frontier => c \in r.ids
    BY <1>1, <1>3 DEF Children
  <2>2. Children(r.ids \ r.frontier)' \subseteq r.ids
    BY <2>1 DEF Children
  <2>3. QED BY <1>1, <1>2, <2>2 DEF Gathered
<1>4. ASSUME NEW sc, NEW q, KnownIn(sc, q), sc # Home(r) \/ q = Null
      PROVE  q \notin r.ids
  BY <1>1, <1>4, NullIsNoRow DEF KnownIn
<1>5. ASSUME NEW v \in Worker, WriteCreate(v) PROVE Gathered(r)'
  <2>1. PICK n \in Step :
          /\ step[n].state = "none" /\ Enabled' = Enabled \cup {n}
          /\ step'[n].parent = request[v].parent
          /\ \A s \in Step \ {n} : \/ step'[s].parent = step[s].parent
                                   \/ step'[s].parent = n
    BY <1>5, CreateEffect
  <2>2. request[v].scenario # Home(r)
    BY <1>5 DEF WriteCreate, Grows, DropsApart
  <2>3. request[v].parent \notin r.ids
    BY <1>4, <1>5, <2>2 DEF WriteCreate, ParentInv, ParentChecked
  <2>4. n \notin r.ids
    BY <1>1, <2>1
  <2>5. QED BY <1>3, <2>1, <2>3, <2>4 DEF Enabled
<1>6. ASSUME NEW v \in Worker, WriteMove(v) PROVE Gathered(r)'
  <2> DEFINE k == request[v].step
             q == request[v].to
  <2>1. /\ KnownIn(step[k].home, q) /\ Enabled' = Enabled
        /\ step'[k].parent = q
        /\ \A s \in Step : s # k => step'[s].parent = step[s].parent
    BY <1>6, MoveEffect
  <2>2. q # Null => step[k].home # Home(r)
    BY <1>6 DEF WriteMove, Moves, Grows, Home, DropsApart
  <2>3. q \notin r.ids
    BY <1>4, <2>1, <2>2
  <2>4. QED BY <1>3, <2>1, <2>3 DEF Enabled
<1>7. ASSUME NEW S, Disable(S) PROVE Gathered(r)'
  BY <1>3, <1>7, DisableEffect DEF Enabled
<1>8. CASE UNCHANGED step
  BY <1>3, <1>8 DEF Enabled
<1>9. QED
  BY <1>5, <1>6, <1>7, <1>8, StepWriters
  DEF WriteDelete, WriteDropScenario, WriteDropJourney

\* A commit of another request leaves what this one has read as it needs it.
LEMMA PlacedStays ==
  ASSUME TypeOK, DropsApart, DropInv, [Next]_vars,
         NEW w \in Worker, request[w] # Idle, request'[w] = request[w]
  PROVE  Placed(request[w])'
<1> DEFINE r == request[w]
<1>1. Placed(r) /\ ParentInv
  BY DEF DropInv
<1>2. ASSUME NEW v \in Worker, WriteDropScenario(v)
      PROVE  DropsScenario(request[v], request[v].scenario)
  BY <1>2 DEF WriteDropScenario, DropsScenario
<1>3. ASSUME NEW v \in Worker, WriteDropJourney(v)
      PROVE  DropsJourney(request[v])
  BY <1>3 DEF WriteDropJourney, DropsJourney
<1>4. ASSUME NEW v \in Worker, WriteDelete(v)
      PROVE  /\ Deletes(request[v]) /\ request[v].at = "write"
             /\ \A s \in request[v].ids : step[s].home = Home(request[v])
  BY <1>4 DEF WriteDelete, Deletes, DropInv, Placed, Gathered
<1>5. r \in CreateRequest => Open(r.scenario)'
  BY <1>1, <1>2, <1>3, AboveStays
  DEF Placed, DropsApart, DropsScenario, CreateRequest
<1>6. (r \in CreateRequest /\ r.at = "write") => r.parent \in Enabled' \cup {Null}
  <2> SUFFICES ASSUME r \in CreateRequest, r.at = "write", r.parent # Null
               PROVE  r.parent \in Enabled'
    OBVIOUS
  <2>1. r.parent \in Enabled /\ step[r.parent].home = r.scenario
    BY <1>1 DEF Placed, ParentInv, ParentChecked, KnownIn
  <2>2. Grows(r, r.scenario)
    BY DEF Grows
  <2>3. ASSUME NEW v \in Worker, WriteDelete(v) PROVE r.parent \notin request[v].ids
    BY <1>4, <2>1, <2>2, <2>3 DEF DropsApart
  <2>4. ASSUME NEW v \in Worker
        PROVE  /\ ~WriteDropJourney(v)
               /\ WriteDropScenario(v) => request[v].scenario # r.scenario
    BY <1>2, <1>3 DEF DropsApart, DropsScenario
  <2>5. QED BY <2>1, <2>3, <2>4, AboveStays
<1>7. Moves(r) => r.to \in Enabled' \/ r.step \notin Enabled'
  <2> SUFFICES ASSUME Moves(r), r.step \in Enabled' PROVE r.to \in Enabled'
    OBVIOUS
  <2>1. step[r.step].state # "none" /\ step[r.to].home = Home(r)
    BY <1>1 DEF ParentInv, ParentChecked, KnownIn, Moves, Home
  <2>2. r.step \in Enabled /\ r.to \in Enabled
    BY <1>1, <2>1, EnabledWasFree DEF Placed
  <2>3. ASSUME NEW v \in Worker, WriteDelete(v) PROVE r.to \notin request[v].ids
    BY <1>4, <2>1, <2>3 DEF DropsApart, Grows
  <2>4. ASSUME NEW v \in Worker
        PROVE  /\ ~WriteDropJourney(v)
               /\ WriteDropScenario(v) => request[v].scenario # Home(r)
    <3>1. CASE WriteDropJourney(v)
      <4>1. r.step \in StepsOf(Scenario)
        BY <1>1, <2>1, <2>2 DEF ParentInv, FreeRowsEmpty, StepsOf, Enabled
      <4>2. QED BY <3>1, <4>1, DisableEffect DEF WriteDropJourney
    <3>2. CASE WriteDropScenario(v) /\ request[v].scenario = Home(r)
      <4>1. r.step \in StepsOf({request[v].scenario})
        BY <2>1, <2>2, <3>2 DEF StepsOf, Home, Enabled
      <4>2. QED BY <3>2, <4>1, DisableEffect DEF WriteDropScenario
    <3>3. QED BY <3>1, <3>2
  <2>5. QED BY <2>1, <2>2, <2>3, <2>4, AboveStays
<1>8. Deletes(r) => Gathered(r)'
  BY <1>1, GatheredStays DEF Placed
<1>9. Attaches(r) => r.step \in Enabled'
  <2> SUFFICES ASSUME Attaches(r) PROVE r.step \in Enabled'
    OBVIOUS
  <2>1. r.step \in Enabled
    BY <1>1 DEF Placed
  <2>2. ASSUME NEW v \in Worker, WriteDelete(v) PROVE r.step \notin request[v].ids
    BY <1>4, <2>2 DEF DropsApart
  <2>3. ASSUME NEW v \in Worker
        PROVE  /\ ~WriteDropJourney(v)
               /\ WriteDropScenario(v) => request[v].scenario # Home(r)
    BY <1>2, <1>3 DEF DropsApart, DropsScenario
  <2>4. QED BY <2>1, <2>2, <2>3, AboveStays DEF Home
<1>10. AddsScenario(r) => journey'
  BY <1>1, <1>3, AboveStays DEF Placed, DropsApart
<1>11. QED
  BY <1>5, <1>6, <1>7, <1>8, <1>9, <1>10
  DEF Placed, Moves, Deletes, Attaches, AddsScenario

\* What its own steps read is so when they read it.
LEMMA PlacedWhenRead ==
  ASSUME TypeOK, ParentInv, NEW w \in Worker, Placed(request[w]),
         Loads(w) \/ CheckItem(w) \/ Walk(w) \/ WriteCreate(w),
         request'[w] # Idle
  PROVE  Placed(request[w])'
<1> DEFINE r == request[w]
           Same == UNCHANGED <<journey, scenario, step, parts>>
<1> USE DEF Moves, Deletes, Attaches, AddsScenario
<1>1. CASE LoadCreate(w)
  <2>1. PICK sc \in Scenario : /\ request'[w] = Creation("item", sc, Null)
                              /\ Open(sc)
    BY <1>1 DEF LoadCreate, Start, TypeOK
  <2>2. request'[w].op = "create" /\ request'[w].at = "item"
        /\ request'[w].scenario = sc
    BY <2>1 DEF Creation
  <2>3. Open(sc)'
    BY <1>1, <2>1 DEF LoadCreate, Open
  <2>4. QED BY <2>2, <2>3, OpTellsKind DEF Placed, Open
<1>2. CASE CheckItem(w)
  <2>1. PICK p \in Parent :
          /\ request'[w] = Creation("write", r.scenario, p)
          /\ ValidParent(r.scenario, p)
    BY <1>2 DEF CheckItem, Continue, TypeOK
  <2>2. /\ request'[w].op = "create" /\ request'[w].at = "write"
        /\ request'[w].scenario = r.scenario /\ request'[w].parent = p
    BY <2>1 DEF Creation
  <2>3. Open(r.scenario) /\ p \in Enabled \cup {Null} /\ Same
    BY <1>2, <2>1 DEF CheckItem, Placed, ValidParent
  <2>4. QED BY <2>2, <2>3, OpTellsKind DEF Placed, Open, Enabled
<1>3. CASE WriteCreate(w)
  <2>1. request'[w] = Creation("item", r.scenario, Null)
    BY <1>3 DEF WriteCreate, Continue, Finish, TypeOK
  <2>2. /\ request'[w].op = "create" /\ request'[w].at = "item"
        /\ request'[w].scenario = r.scenario
    BY <2>1 DEF Creation
  <2>3. Open(r.scenario) /\ UNCHANGED <<journey, scenario>>
    BY <1>3 DEF WriteCreate, Placed
  <2>4. QED BY <2>2, <2>3, OpTellsKind DEF Placed, Open
<1>4. CASE LoadMove(w)
  <2>1. PICK s \in Step, p \in Parent, at \in {"walk", "write"},
             ids \in SUBSET Step :
          /\ request'[w] = Walking("move", at, s, p, ids)
          /\ p \in Enabled \cup {Null}
    BY <1>4 DEF LoadMove, Start, TypeOK, ValidParent
  <2>2. request'[w].op = "move" /\ request'[w].to = p
    BY <2>1 DEF Walking
  <2>3. Enabled' = Enabled
    BY <1>4 DEF LoadMove, Enabled
  <2>4. QED BY <2>1, <2>2, <2>3, OpTellsKind DEF Placed
<1>5. CASE LoadDelete(w)
  <2>1. PICK s \in Step :
          /\ request'[w] = Walking("delete", "walk", s, Null, {s})
          /\ s \in Enabled
    BY <1>5 DEF LoadDelete, Start, TypeOK, Found
  <2>2. /\ request'[w].op = "delete" /\ request'[w].at = "walk"
        /\ request'[w].step = s
        /\ request'[w].ids = {s} /\ request'[w].frontier = {s}
    BY <2>1 DEF Walking
  <2>3. UNCHANGED step /\ request'[w].ids \ request'[w].frontier = {}
    BY <1>5, <2>2 DEF LoadDelete
  <2>4. Children(request[w].ids \ request[w].frontier)' = {}
    BY <2>3 DEF Children
  <2>5. Gathered(request[w])'
    BY <2>1, <2>2, <2>3, <2>4 DEF Gathered, Enabled, Home
  <2>6. QED BY <2>2, <2>5, OpTellsKind DEF Placed
<1>6. CASE Walk(w)
  <2>1. r \in WalkRequest /\ r.at = "walk" /\ Same
    BY <1>6 DEF Walk
  <2> PICK fresh \in SUBSET Step : fresh = Fresh(request[w])
    BY DEF Fresh, Children, Enabled
  <2>2. /\ request'[w].op = r.op /\ request'[w].step = r.step
        /\ request'[w].to = r.to
        /\ request'[w].ids = r.ids \cup fresh /\ request'[w].frontier = fresh
    <3>1. \/ request'[w] = [r EXCEPT !.ids = r.ids \cup fresh, !.frontier = fresh]
          \/ /\ fresh = {}
             /\ request'[w] = [r EXCEPT !.at = "write", !.frontier = {}]
      BY <1>6 DEF Walk, Continue, Finish, TypeOK
    <3>2. QED BY <2>1, <3>1 DEF WalkRequest
  <2>3. request'[w].at = "write" => fresh = {}
    BY <1>6, <2>1 DEF Walk, Continue, Finish, TypeOK, WalkRequest
  <2>4. Enabled' = Enabled
    BY <2>1 DEF Enabled
  <2>5. r.op = "delete" => Gathered(request[w])'
    <3> SUFFICES ASSUME r.op = "delete" PROVE Gathered(request[w])'
      OBVIOUS
    <3>1. Gathered(r)
      BY <2>1 DEF Placed
    <3>2. \A s \in fresh : step[s].state # "none" /\ step[s].home = Home(r)
      <4> SUFFICES ASSUME NEW s \in fresh
                   PROVE  step[s].state # "none" /\ step[s].home = Home(r)
        OBVIOUS
      <4>1. s \in Enabled /\ step[s].parent \in r.ids
        BY <3>1 DEF Fresh, Children, Gathered
      <4>2. KnownIn(step[s].home, step[s].parent) /\ step[s].parent # Null
        BY <2>1, <4>1, NullIsNoRow DEF ParentInv, ParentsKnown, Enabled, WalkRequest
      <4>3. QED BY <3>1, <4>1, <4>2 DEF KnownIn, Enabled, Gathered
    <3>3. Children((r.ids \cup fresh) \ fresh) \subseteq r.ids \cup fresh
      BY <3>1 DEF Children, Fresh, Gathered
    <3>4. Children(request[w].ids \ request[w].frontier)' \subseteq request'[w].ids
      BY <2>1, <2>2, <2>4, <3>3 DEF Children
    <3>5. \A s \in request'[w].ids : step'[s].state # "none"
                                     /\ step'[s].home = Home(request[w])'
      BY <2>1, <2>2, <3>1, <3>2 DEF Gathered, Home
    <3>6. QED BY <2>1, <2>2, <2>3, <3>1, <3>4, <3>5 DEF Gathered
  <2>6. request'[w].op \in {"move", "delete"}
    BY <2>1, <2>2 DEF WalkRequest
  <2>7. QED BY <2>1, <2>2, <2>4, <2>5, <2>6, OpTellsKind DEF Placed
<1>7. CASE LoadPart(w)
  <2>1. PICK s \in Enabled : /\ request'[w].op \in {"attach", "detach"}
                            /\ request'[w].step = s
    BY <1>7 DEF LoadPart, Start, TypeOK, Found
  <2>2. Enabled' = Enabled
    BY <1>7 DEF LoadPart, Enabled
  <2>3. QED BY <2>1, <2>2, OpTellsKind DEF Placed
<1>8. CASE LoadAddScenario(w)
  <2>1. request'[w].op = "add" /\ journey'
    BY <1>8 DEF LoadAddScenario, Start, TypeOK
  <2>2. QED BY <2>1, OpTellsKind DEF Placed
<1>9. CASE LoadDropScenario(w)
  <2>1. request'[w].op = "drop"
    BY <1>9 DEF LoadDropScenario, Start, TypeOK
  <2>2. QED BY <2>1, OpTellsKind DEF Placed
<1>10. CASE LoadDropJourney(w)
  <2>1. request'[w].op = "drop all"
    BY <1>10 DEF LoadDropJourney, Start, TypeOK
  <2>2. QED BY <2>1, OpTellsKind DEF Placed
<1>11. QED
  BY <1>1, <1>2, <1>3, <1>4, <1>5, <1>6, <1>7, <1>8, <1>9, <1>10 DEF Loads

LEMMA PlacedStep ==
  ASSUME TypeOK, DropsApart, DropInv, [Next]_vars, NEW w \in Worker
  PROVE  Placed(request[w])'
<1>1. CASE request'[w] = Idle
  BY <1>1, IdleNamesNothing
  DEF Placed, Moves, Deletes, Attaches, AddsScenario
<1>2. CASE request'[w] # Idle /\ request'[w] = request[w]
  BY <1>2, PlacedStays
<1>3. CASE /\ request'[w] # Idle
           /\ Loads(w) \/ CheckItem(w) \/ Walk(w) \/ WriteCreate(w)
  BY <1>3, PlacedWhenRead DEF DropInv
<1>4. QED BY <1>1, <1>2, <1>3, RequestSteps

LEMMA DropInvInit == Init => DropInv
<1> SUFFICES ASSUME Init PROVE DropInv
  OBVIOUS
<1>1. Enabled = {}
  BY DEF Init, Enabled
<1>2. NothingOutlivesItsParent
  BY <1>1 DEF Init, NothingOutlivesItsParent, ScenariosUnderJourney,
              StepsUnderSteps, PartsUnderSteps
<1>3. \A w \in Worker : Placed(request[w])
  BY IdleNamesNothing DEF Init, Placed, Moves, Deletes, Attaches, AddsScenario
<1>4. QED BY <1>2, <1>3, ParentInvInit DEF DropInv

\* However requests overlap otherwise, nothing enabled is left under a step, a
\* scenario or a journey they deleted, as long as nothing is being added to
\* what a deletion is about to take: each deletion takes all it has found.
THEOREM NothingOutlivesApart == Spec /\ []DropsApart => []NothingOutlivesItsParent
<1>1. TypeOK /\ DropsApart /\ DropInv /\ [Next]_vars => DropInv'
  BY ParentInvStep, NothingOutlivesStep, PlacedStep DEF DropInv
<1>2. DropInv => NothingOutlivesItsParent
  BY DEF DropInv
<1>3. QED BY <1>1, <1>2, DropInvInit, TypeCorrect, PTL DEF Spec

LEMMA SoleDeletion ==
  ASSUME SoleRequest
  PROVE  DropsApart
<1>1. ASSUME NEW v \in Worker, NEW w \in Worker, v # w
      PROVE  request[v] = Idle \/ request[w] = Idle
  BY <1>1 DEF SoleRequest
<1>2. Idle \notin DropRequest
  BY DEF Idle, DropRequest
<1>3. QED
  BY <1>1, <1>2, IdleNamesNothing, OpTellsKind
  DEF DropsApart, Deletes, Grows, Moves, Attaches, AddsScenario, DropsScenario,
      DropsJourney

\* So it is when requests do not overlap.
THEOREM NothingOutlivesCorrect ==
  ASSUME Serial
  PROVE  Spec => []NothingOutlivesItsParent
<1>1. Spec => []SoleRequest
  BY SoleRequestCorrect
<1>2. SoleRequest => DropsApart
  BY SoleDeletion
<1>3. QED BY <1>1, <1>2, NothingOutlivesApart, PTL

\* The two together are what a reader needs: whatever the steps, a walk from
\* the roots finds every enabled one, or those it misses would form a ring.
LEMMA TreeIsRead ==
  ASSUME Acyclic, NothingOutlivesItsParent
  PROVE  EveryStepIsRead
<1> SUFFICES ASSUME NEW T \in SUBSET Enabled, Roots \subseteq T,
                    Children(T) \subseteq T, Enabled \ T # {}
             PROVE  FALSE
  BY DEF EveryStepIsRead
<1>1. PICK s \in Enabled \ T : step[s].parent \notin Enabled \ T
  BY DEF Acyclic
<1>2. step[s].parent # Null
  BY <1>1 DEF Roots
<1>3. step[s].parent \in T
  BY <1>1, <1>2 DEF NothingOutlivesItsParent, StepsUnderSteps
<1>4. QED BY <1>1, <1>3 DEF Children

\* No scenario with enabled steps reads as empty, or as less than it holds, as
\* long as its moves, and what adds to it and deletes from it, are kept apart.
THEOREM EveryStepIsReadApart ==
  Spec /\ []MovesApart /\ []DropsApart => []EveryStepIsRead
<1>1. Acyclic /\ NothingOutlivesItsParent => EveryStepIsRead
  BY TreeIsRead
<1>2. QED BY <1>1, AcyclicApart, NothingOutlivesApart, PTL

\* So it is when requests do not overlap.
THEOREM EveryStepIsReadCorrect ==
  ASSUME Serial
  PROVE  Spec => []EveryStepIsRead
<1>1. Acyclic /\ NothingOutlivesItsParent => EveryStepIsRead
  BY TreeIsRead
<1>2. QED BY <1>1, AcyclicCorrect, NothingOutlivesCorrect, PTL

----------------------------------------------------------------------------
(* What makes a walk end.                                                  *)

\* Whatever others do meanwhile, and though the steps may form a ring, a walk
\* that goes on after a query has found a step it had not: with finitely many
\* steps, there is a last query, which is what WalkEnds rests on.
WalkGrows ==
  [][\A w \in Worker :
       InWalk(w) /\ InWalk(w)' /\ request'[w] # request[w] =>
         /\ request[w].ids \subseteq request'[w].ids
         /\ request[w].ids # request'[w].ids]_vars

\* Each query of a walk but the last finds a step not found before.
THEOREM WalkGrowsCorrect == Spec => WalkGrows
<1>1. TypeOK /\ [Next]_vars =>
        [\A w \in Worker :
           InWalk(w) /\ InWalk(w)' /\ request'[w] # request[w] =>
             /\ request[w].ids \subseteq request'[w].ids
             /\ request[w].ids # request'[w].ids]_vars
  <2> SUFFICES ASSUME TypeOK, [Next]_vars, NEW w \in Worker,
                      InWalk(w), InWalk(w)', request'[w] # request[w]
               PROVE  /\ request[w].ids \subseteq request'[w].ids
                      /\ request[w].ids # request'[w].ids
    OBVIOUS
  <2> DEFINE r == request[w]
             fresh == Fresh(r)
  <2>1. /\ r \in WalkRequest /\ r # Idle
        /\ request'[w] \in WalkRequest /\ request'[w].at = "walk"
    BY IdleNamesNothing DEF InWalk
  <2>2. Walk(w)
    <3>1. request'[w] # Idle /\ r.op # "create"
      BY <2>1, IdleNamesNothing, OpTellsKind
    <3>2. ~Loads(w)
      BY <2>1 DEF Loads, LoadCreate, LoadMove, LoadDelete, LoadPart,
                  LoadAddScenario, LoadDropScenario, LoadDropJourney, Start,
                  CanStart
    <3>3. ~CheckItem(w) /\ ~WriteCreate(w)
      BY <3>1, OpTellsKind DEF CheckItem, WriteCreate
    <3>4. QED BY <3>1, <3>2, <3>3, RequestSteps
  <2>3. fresh # {} /\ request'[w] = [r EXCEPT !.ids = r.ids \cup fresh,
                                              !.frontier = fresh]
    <3>1. [r EXCEPT !.at = "write", !.frontier = {}].at = "write"
      BY <2>1 DEF WalkRequest
    <3>2. QED
      BY <2>1, <2>2, <3>1, IdleNamesNothing DEF Walk, Continue, Finish, TypeOK
  <2>4. request'[w].ids = r.ids \cup fresh
    BY <2>1, <2>3 DEF WalkRequest
  <2>5. QED BY <2>3, <2>4 DEF Fresh
<1>2. QED BY <1>1, TypeCorrect, PTL DEF Spec, WalkGrows
==============================================================================
