---------------------------- MODULE HouseholdStore ----------------------------
(* PostgresHouseholdStore and HouseholdSpace of src/aegis/household.py, with the
   executors and verifiers that use them (household.py and reference_packs.py).

   A Space is one row of household_spaces whose payload holds everything. Each
   operation loads the payload, changes the copy and writes the whole copy back;
   no statement of it looks at what was written in between. Callers are requests
   on connections of their own, so they interleave between these statements.
   A caller's operation is grounded first (ground_reference_action): its record
   ids and its expected version are what the table showed at that moment.

   A copy that is written back takes other writers' changes away. What the
   module asks is what still holds: that the ledgers that make an operation
   replay-safe stay in step with the rows they account for, whatever is lost. *)
EXTENDS Naturals, Sequences, FiniteSets

CONSTANTS
  Callers,      \* requests of members of the Space
  KeyOf,        \* the idempotency key each request carries; duplicates share one
  Foods, Titles,
  Legacy,       \* foods on the list from before there were ledgers
  Stock,        \* what the pantry holds at first, by food
  Portion,      \* what a consumption takes
  Unknown,      \* the quantity of something nobody counted
  Kept,         \* an update that leaves the quantity as it is
  Kinds         \* the operations callers ask for

OperationKinds == {"AddGrocery", "SetGrocery", "RemoveGroceries", "AddPantry",
                   "UpdatePantry", "ConsumePantry", "AddChore", "CompleteChore", "AddEvent",
                   "ListGroceries", "ListPantry"}

ASSUME HouseholdAssumption ==
  /\ Legacy \in Seq(Foods)
  /\ DOMAIN Stock \subseteq Foods
  /\ \A f \in DOMAIN Stock : Stock[f] \in Nat
  /\ Portion \in Nat \ {0}
  /\ Unknown \notin Nat /\ Kept \notin Nat /\ Unknown # Kept
  /\ Kinds \subseteq OperationKinds

VARIABLES
  space,   \* the row of household_spaces
  caller   \* each request: where it is, its operation, its copy, what it saw

householdVars == <<space, caller>>

Keys == {KeyOf[c] : c \in Callers}
Empty == [x \in {} |-> {}]
\* f with x mapped to y
With(f, x, y) == [z \in DOMAIN f \cup {x} |-> IF z = x THEN y ELSE f[z]]

\* migrate_grocery_strings: one record per string, its id from name and place
Migrated(list) ==
  [id \in {<<list[i], i>> : i \in DOMAIN list} |-> [state |-> "needed", version |-> 0]]

\* HouseholdSpace
NewSpace(list) ==
  [groceries |-> list, items |-> Migrated(list), groceryLedger |-> Empty,
   pantry |-> [f \in DOMAIN Stock |-> [quantity |-> Stock[f], version |-> 0]],
   chores |-> Empty, choreLedger |-> Empty,
   events |-> Empty, eventLedger |-> Empty]

NoOperation == [kind |-> "none"]
Resting == [at |-> "idle", op |-> NoOperation, looked |-> "nothing",
            copy |-> "nothing", shown |-> "nothing", verdict |-> "none"]

HouseholdInit ==
  /\ space = NewSpace(Legacy)
  /\ caller = [c \in Callers |-> Resting]

-----------------------------------------------------------------------------
(* Grounding: the operations a caller may ask for, given what the table shows.   *)

NeededIds(s) == {id \in DOMAIN s.items : s.items[id].state = "needed"}
ChoresNamed(s, t) == {id \in DOMAIN s.chores : s.chores[id].title = t}

Groundable(c, s) ==
  UNION {
    [kind : {"AddGrocery"}, food : Foods, key : {KeyOf[c]}],
    [kind : {"SetGrocery"}, id : DOMAIN s.items, to : {"purchased", "removed"}],
    [kind : {"RemoveGroceries"}, ids : (SUBSET NeededIds(s)) \ {{}}],
    [kind : {"AddPantry"}, food : Foods, quantity : {Portion, Unknown}],
    {[kind |-> "UpdatePantry", food |-> f, quantity |-> q, expected |-> s.pantry[f].version] :
       f \in DOMAIN s.pantry, q \in {Portion, Kept}},
    {[kind |-> "ConsumePantry", food |-> f, amount |-> Portion, expected |-> s.pantry[f].version] :
       f \in DOMAIN s.pantry},
    [kind : {"AddChore"}, title : Titles, key : {KeyOf[c]}],
    {[kind |-> "CompleteChore", title |-> t] :
       t \in {u \in Titles : Cardinality(ChoresNamed(s, u)) = 1}},
    [kind : {"AddEvent"}, title : Titles, key : {KeyOf[c]}],
    [kind : {"ListGroceries", "ListPantry"}]}

\* the executors that read the table themselves before they call the store
LooksUp(op) == op.kind \in {"UpdatePantry", "CompleteChore"}

Ground(c) ==
  /\ caller[c].at = "idle"
  /\ \E op \in {o \in Groundable(c, space) : o.kind \in Kinds} :
       caller' = [caller EXCEPT ![c].op = op,
                                ![c].at = IF LooksUp(op) THEN "look" ELSE "load"]
  /\ UNCHANGED space

Fails(c) == caller' = [caller EXCEPT ![c].at = "done", ![c].verdict = "failed",
                                     ![c].copy = "nothing", ![c].looked = "nothing"]

LookUp(c) ==
  LET op == caller[c].op
      found == IF op.kind = "UpdatePantry" THEN DOMAIN space.pantry \cap {op.food}
               ELSE ChoresNamed(space, op.title)
  IN
  /\ caller[c].at = "look"
  /\ UNCHANGED space
  /\ \/ /\ Cardinality(found) # 1
        /\ Fails(c)
     \/ \E x \in found :
          /\ Cardinality(found) = 1
          /\ IF op.kind = "CompleteChore" /\ space.chores[x].completed
               THEN \* already completed: the store is not asked
                    caller' = [caller EXCEPT ![c].at = "verify",
                                             ![c].shown = <<x, space.chores[x]>>]
               ELSE caller' = [caller EXCEPT ![c].at = "load",
                                 ![c].looked = IF op.kind = "UpdatePantry"
                                                 THEN space.pantry[x].quantity ELSE x]

\* the reads, which show what they read
ReadsOnly(op) == op.kind \in {"ListGroceries", "ListPantry"}
NeededList(s) ==
  SelectSeq([i \in DOMAIN s.groceries |-> <<s.groceries[i], i>>], LAMBDA id : id \in NeededIds(s))
Contents(s, op) == IF op.kind = "ListGroceries" THEN NeededList(s) ELSE s.pantry

ListRecords(c) ==
  /\ caller[c].at = "load" /\ ReadsOnly(caller[c].op)
  /\ caller' = [caller EXCEPT ![c].at = "verify", ![c].shown = Contents(space, caller[c].op)]
  /\ UNCHANGED space

\* load(): the payload as it is now
Load(c) ==
  /\ caller[c].at = "load" /\ ~ReadsOnly(caller[c].op)
  /\ caller' = [caller EXCEPT ![c].at = "save", ![c].copy = space]
  /\ UNCHANGED space

-----------------------------------------------------------------------------
(* The operations of HouseholdSpace on a copy s: whether they are accepted, what
   the copy is then, and the record the executor shows as evidence.             *)

\* Fault: an addition does not look for its key in the ledger.
ForgetsTheKey(ledger, key) == FALSE
\* the idempotency key is in the ledger: this mutation was made
Replayed(ledger, key) == key \in DOMAIN ledger

\* the key is unbound, or bound to this very food or title
SameGrocery(s, op) ==
  op.key \in DOMAIN s.groceryLedger => s.groceryLedger[op.key] = op.food
SameChore(s, op) ==
  op.key \in DOMAIN s.choreLedger => s.chores[s.choreLedger[op.key]].title = op.title
SameEvent(s, op) ==
  op.key \in DOMAIN s.eventLedger => s.events[s.eventLedger[op.key]] = op.title

NewInPantry(s, op) ==
  op.food \in DOMAIN s.pantry => s.pantry[op.food] = [quantity |-> op.quantity, version |-> 0]
\* optimistic version checking, in the copy
VersionMatches(s, op) ==
  op.food \in DOMAIN s.pantry /\ s.pantry[op.food].version = op.expected

Accepts(s, op, looked) ==
  CASE op.kind = "AddGrocery"      -> SameGrocery(s, op)
    [] op.kind = "SetGrocery"      -> op.id \in DOMAIN s.items
    [] op.kind = "RemoveGroceries" -> op.ids \subseteq NeededIds(s)
    [] op.kind = "AddPantry"       -> NewInPantry(s, op)
    [] op.kind = "UpdatePantry"    -> VersionMatches(s, op)
    [] op.kind = "ConsumePantry"   -> /\ VersionMatches(s, op)
                                      /\ s.pantry[op.food].quantity # Unknown
    [] op.kind = "AddChore"        -> SameChore(s, op)
    [] op.kind = "CompleteChore"   -> looked \in DOMAIN s.chores
    [] op.kind = "AddEvent"        -> SameEvent(s, op)

AddGrocery(s, op) ==
  IF Replayed(s.groceryLedger, op.key) THEN s
  ELSE LET list == Append(s.groceries, op.food) IN
       [s EXCEPT !.groceries = list,
                 !.items = [id \in DOMAIN Migrated(list) |->    \* setdefault
                              IF id \in DOMAIN s.items THEN s.items[id]
                              ELSE Migrated(list)[id]],
                 !.groceryLedger = With(s.groceryLedger, op.key, op.food)]

SetGroceries(s, ids, to) ==
  [s EXCEPT !.items = [id \in DOMAIN s.items |->
     IF id \in ids THEN [state |-> to, version |-> s.items[id].version + 1] ELSE s.items[id]]]

PutPantry(s, food, quantity, version) ==
  [s EXCEPT !.pantry = With(s.pantry, food, [quantity |-> quantity, version |-> version])]

\* Fault: a consumption takes what is not there.
Overdrawn(quantity, amount) == quantity - amount
Remaining(quantity, amount) == IF quantity >= amount THEN quantity - amount ELSE 0

\* a new chore or event has a fresh uuid, which the request that makes it names
AddChore(s, op, c) ==
  IF Replayed(s.choreLedger, op.key) THEN s
  ELSE [s EXCEPT !.chores = With(s.chores, c, [title |-> op.title, completed |-> FALSE]),
                 !.choreLedger = With(s.choreLedger, op.key, c)]

AddEvent(s, op, c) ==
  IF Replayed(s.eventLedger, op.key) THEN s
  ELSE [s EXCEPT !.events = With(s.events, c, op.title),
                 !.eventLedger = With(s.eventLedger, op.key, c)]

UpdatePantry(s, op, looked) ==
  PutPantry(s, op.food, IF op.quantity = Kept THEN looked ELSE op.quantity,
            s.pantry[op.food].version + 1)
ConsumePantry(s, op) ==
  PutPantry(s, op.food, Remaining(s.pantry[op.food].quantity, op.amount),
            s.pantry[op.food].version + 1)

CompleteChore(s, id) == [s EXCEPT !.chores[id].completed = TRUE]

Applied(s, op, looked, c) ==
  CASE op.kind = "AddGrocery"      -> AddGrocery(s, op)
    [] op.kind = "SetGrocery"      -> SetGroceries(s, {op.id}, op.to)
    [] op.kind = "RemoveGroceries" -> SetGroceries(s, op.ids, "removed")
    [] op.kind = "AddPantry"       -> PutPantry(s, op.food, op.quantity, 0)
    [] op.kind = "UpdatePantry"    -> UpdatePantry(s, op, looked)
    [] op.kind = "ConsumePantry"   -> ConsumePantry(s, op)
    [] op.kind = "AddChore"        -> AddChore(s, op, c)
    [] op.kind = "CompleteChore"   -> CompleteChore(s, looked)
    [] op.kind = "AddEvent"        -> AddEvent(s, op, c)

\* what the executors put into the observation: the record they were handed back
GroceryAdded(op) == <<op.food, op.key>>
GroceriesRemoved(op) == op.ids
GroceryEvidence(s, op) == <<op.id, s.items[op.id]>>
PantryEvidence(s, op) == <<op.food, s.pantry[op.food]>>
ChoreEvidence(s, op, looked) ==
  LET id == IF op.kind = "AddChore" THEN s.choreLedger[op.key] ELSE looked
  IN  <<id, s.chores[id]>>
EventEvidence(s, op) == LET id == s.eventLedger[op.key] IN <<id, s.events[id]>>

Evidence(s, op, looked) ==
  CASE op.kind = "AddGrocery" -> GroceryAdded(op)
    [] op.kind = "SetGrocery" -> GroceryEvidence(s, op)
    [] op.kind = "RemoveGroceries" -> GroceriesRemoved(op)
    [] op.kind \in {"AddPantry", "UpdatePantry", "ConsumePantry"} -> PantryEvidence(s, op)
    [] op.kind \in {"AddChore", "CompleteChore"} -> ChoreEvidence(s, op, looked)
    [] op.kind = "AddEvent" -> EventEvidence(s, op)

\* the operation on the copy, and save() of the whole copy: an accepted replay,
\* which changes nothing, is saved as well
Save(c) ==
  LET op == caller[c].op
      s  == caller[c].copy
      t  == Applied(s, op, caller[c].looked, c)
  IN
  /\ caller[c].at = "save"
  /\ \/ /\ ~Accepts(s, op, caller[c].looked)
        /\ Fails(c)
        /\ UNCHANGED space
     \/ /\ Accepts(s, op, caller[c].looked)
        /\ space' = t
        /\ caller' = [caller EXCEPT ![c].at = "verify", ![c].copy = "nothing",
                                    ![c].shown = Evidence(t, op, caller[c].looked)]

-----------------------------------------------------------------------------
(* The verifiers read the table again and compare.                              *)

\* the list has a record for each string that was ever added
GroceryListed(s, shown) == \E i \in DOMAIN s.groceries : s.groceries[i] = shown[1]
GroceryStateKept(s, shown) == shown[1] \in DOMAIN s.items /\ s.items[shown[1]] = shown[2]
GroceriesGone(s, ids) == ids \cap NeededIds(s) = {}
PantryKept(s, shown) == shown[1] \in DOMAIN s.pantry /\ s.pantry[shown[1]] = shown[2]
ChoreKept(s, shown) == shown[1] \in DOMAIN s.chores /\ s.chores[shown[1]] = shown[2]
EventKept(s, shown) == shown[1] \in DOMAIN s.events /\ s.events[shown[1]] = shown[2]

Confirmed(s, op, shown) ==
  CASE op.kind = "AddGrocery" -> GroceryListed(s, shown)
    [] op.kind = "SetGrocery" -> GroceryStateKept(s, shown)
    [] op.kind = "RemoveGroceries" -> GroceriesGone(s, shown)
    [] op.kind \in {"AddPantry", "UpdatePantry", "ConsumePantry"} -> PantryKept(s, shown)
    [] op.kind \in {"AddChore", "CompleteChore"} -> ChoreKept(s, shown)
    [] op.kind = "AddEvent" -> EventKept(s, shown)
    [] ReadsOnly(op) -> Contents(s, op) = shown

\* grocery_recorded(), a read of its own before the list is read
Recorded(s, shown) ==
  shown[2] \in DOMAIN s.groceryLedger /\ s.groceryLedger[shown[2]] = shown[1]

VerifyRecorded(c) ==
  /\ caller[c].at = "verify" /\ caller[c].op.kind = "AddGrocery"
  /\ caller' = [caller EXCEPT ![c].at = "compare", ![c].looked = Recorded(space, caller[c].shown)]
  /\ UNCHANGED space

VerifyHousehold(c) ==
  LET op == caller[c].op IN
  /\ \/ caller[c].at = "compare"
     \/ caller[c].at = "verify" /\ op.kind # "AddGrocery"
  /\ caller' = [caller EXCEPT ![c].at = "done", ![c].looked = "nothing",
       ![c].verdict = IF Confirmed(space, op, caller[c].shown)
                         /\ (op.kind = "AddGrocery" => caller[c].looked)
                        THEN "verified" ELSE "failed"]
  /\ UNCHANGED space

HouseholdNext ==
  \E c \in Callers :
    \/ Ground(c) \/ LookUp(c) \/ ListRecords(c) \/ Load(c) \/ Save(c)
    \/ VerifyRecorded(c) \/ VerifyHousehold(c)

HouseholdSpec == HouseholdInit /\ [][HouseholdNext]_householdVars

-----------------------------------------------------------------------------
(* Properties                                                                *)

SpaceTypeOK(s) ==
  /\ s.groceries \in Seq(Foods)
  /\ DOMAIN s.items \subseteq Foods \X Nat
  /\ DOMAIN s.groceryLedger \subseteq Keys
  /\ DOMAIN s.pantry \subseteq Foods
  /\ \A f \in DOMAIN s.pantry : s.pantry[f].quantity \in Nat \cup {Unknown}
  /\ DOMAIN s.chores \subseteq Callers /\ DOMAIN s.events \subseteq Callers

HouseholdTypeOK ==
  /\ SpaceTypeOK(space)
  /\ \A c \in Callers :
       /\ caller[c].at \in {"idle", "look", "load", "save", "verify", "compare", "done"}
       /\ caller[c].verdict \in {"none", "verified", "failed"}
       /\ caller[c].at = "save" => SpaceTypeOK(caller[c].copy)

\* the groceries on the list s called f
Listed(s, f) == {i \in DOMAIN s.groceries : s.groceries[i] = f}
Accounted(ledger, rows) ==
  /\ \A id \in DOMAIN rows : Cardinality({k \in DOMAIN ledger : ledger[k] = id}) = 1
  /\ \A k \in DOMAIN ledger : ledger[k] \in DOMAIN rows

\* Whatever copies overwrite each other, a key accounts for one row: each grocery
\* beyond the legacy ones, each chore and each event is there for exactly one key
\* of its ledger, no key points to a row that is gone (household.py would raise a
\* KeyError at its next replay), and each listed string has its stable-ID record.
LedgersAccountForRows ==
  /\ \A f \in Foods :
       Cardinality(Listed(space, f)) =
         Cardinality({i \in DOMAIN Legacy : Legacy[i] = f})
         + Cardinality({k \in DOMAIN space.groceryLedger : space.groceryLedger[k] = f})
  /\ DOMAIN space.items = {<<space.groceries[i], i>> : i \in DOMAIN space.groceries}
  /\ Accounted(space.choreLedger, space.chores)
  /\ Accounted(space.eventLedger, space.events)

\* What household.py:428 says of a consumption, "using optimistic version
\* checking": when everybody is done, every verified consumption has been taken
\* from the stock.
VerifiedConsumptionsCount ==
  (\A c \in Callers : caller[c].at = "done") =>
    \A f \in DOMAIN Stock :
      space.pantry[f].quantity =
        Remaining(Stock[f],
                  Portion * Cardinality({c \in Callers : /\ caller[c].verdict = "verified"
                                                         /\ caller[c].op.food = f}))
=============================================================================
