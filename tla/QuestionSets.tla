---------------------------- MODULE QuestionSets ----------------------------
(***************************************************************************)
(* A question set of the bank and the assessments made from it: adding,     *)
(* removing and reordering items, changing a question's marks, the set's    *)
(* stored total, and create_assessment, which copies the set                *)
(* (app/modules/question/service.py, app/modules/assess/service.py).        *)
(*                                                                         *)
(* What is flushed before the commit, an insert, a delete or a new position, *)
(* holds its row and its unique keys, the old ones and the new; another      *)
(* request that needs them waits.                                           *)
(***************************************************************************)
EXTENDS Integers, Sequences, FiniteSets, Functions, TLC, RequestSlots

CONSTANTS
  Questions,   \* questions of the bank
  StartMarks,  \* a question's marks when the set is made
  Marks,       \* marks and overrides a request may ask for
  Orders,      \* positions a request may ask for
  Aside,       \* a reorder moves its items to the positions after it first
  MaxItems,    \* bound: items ever inserted
  Null         \* a NULL column, or a field the payload leaves out

ASSUME SetsAssumption ==
  /\ StartMarks \in [Questions -> Nat \ {0}]
  /\ Marks \subseteq Nat \ {0}
  /\ Orders \subseteq Nat /\ Aside \in Nat
  /\ MaxItems \in Nat
  /\ Null \notin Int

VARIABLES
  questions,  \* the marks of every question
  items,      \* the set's item rows by id: question, order index, marks override
  total,      \* total_marks of the set
  created,    \* how many item ids have been generated
  paper       \* the assessment created last: its total and its questions' marks

db   == <<questions, items, total, created, paper>>
vars == <<questions, items, total, created, paper, req>>

ItemIds == 1 .. MaxItems

-----------------------------------------------------------------------------
QuestionMarks(item, bank) == bank[item.q]  \* mutant: the override is not looked at

\* What an item is worth: its override, or else its question's marks.
Worth(item, bank) == IF item.override # Null THEN item.override ELSE bank[item.q]

SetTotal(rows, bank) == SumFunction([i \in DOMAIN rows |-> Worth(rows[i], bank)])

\* The marks a session sees: a question it has loaded before stays as it was.
BankSeen(x) == [questions EXCEPT ![x.q] = x.known]

Without(rows, id) == Restrict(rows, DOMAIN rows \ {id})

NextOrder(rows) ==
  LET orders == {rows[i].order : i \in DOMAIN rows} IN
  IF orders = {} THEN 1 ELSE 1 + CHOOSE o \in orders : \A p \in orders : p <= o

SameKey(item, other) == item.q = other.q \/ item.order = other.order

Conflicts(rows, item) == \E i \in DOMAIN rows : SameKey(rows[i], item)

\* Requests that have flushed and not committed: an insert, the delete of a row that
\* is still there, or new positions of some rows.
Inserting(p)  == req[p].at \in {"add.recalculate", "add.save"}
Deleting(p)   == /\ req[p].at \in {"remove.recalculate", "remove.save"}
                 /\ req[p].id \in DOMAIN items
Reordering(p) == req[p].at \in {"reorder.aside", "reorder.place"}

\* The rows that p holds, and the questions and positions of its rows, new and old.
HeldRows(p) ==
  IF Reordering(p) THEN DOMAIN req[p].own ELSE IF Deleting(p) THEN {req[p].id} ELSE {}

HeldQuestions(p) ==
  {items[i].q : i \in HeldRows(p)} \cup (IF Inserting(p) THEN {req[p].item.q} ELSE {})

HeldByInserts(p) ==  \* mutant: a position that a reorder has written is not waited for
  {items[i].order : i \in HeldRows(p)} \cup (IF Inserting(p) THEN {req[p].item.order} ELSE {})

HeldPositions(p) ==
  {items[i].order : i \in HeldRows(p)} \cup
  (IF Inserting(p) THEN {req[p].item.order} ELSE IF Reordering(p) THEN req[p].keys ELSE {})

\* Somebody else holds the item, or the position, or one of the keys of a new item.
ItemHeld(r, id) == \E p \in Requests \ {r} : id \in HeldRows(p)

PositionHeld(r, order) == \E p \in Requests \ {r} : order \in HeldPositions(p)

KeysHeld(r, item) ==
  PositionHeld(r, item.order) \/ \E p \in Requests \ {r} : item.q \in HeldQuestions(p)

-----------------------------------------------------------------------------
Init ==
  /\ questions = StartMarks
  /\ items = << >>
  /\ total = 0
  /\ created = 0
  /\ paper = Null
  /\ InitRequests

(* update_question, as far as marks go.  The sets of the question are not     *)
(* touched.                                                                *)

UpdateLoad(r, q, marks) ==
  /\ Begin(r, [at |-> "update.save", q |-> q, seen |-> questions[q], marks |-> marks])
  /\ UNCHANGED db

UpdateSave(r) ==
  LET x == req[r] IN
  /\ x.at = "update.save"
  /\ questions' = [questions EXCEPT ![x.q] = Flushed(@, x.seen, x.marks)]
  /\ Return(r)
  /\ UNCHANGED <<items, total, created, paper>>

-----------------------------------------------------------------------------
(* add_question_set_item.                                                  *)

RoomForItem ==
  created + Cardinality({p \in Requests : req[p].at \in
    {"add.question", "add.item", "add.insert"}}) < MaxItems

AddLoadSet(r, q, order, override) ==
  /\ RoomForItem
  /\ Begin(r, [at |-> "add.question", seen |-> total, q |-> q, order |-> order,
               override |-> override])
  /\ UNCHANGED db

AddLoadQuestion(r) ==
  LET x == req[r] IN
  /\ x.at = "add.question"
  /\ Continue(r, [at |-> "add.item", seen |-> x.seen, q |-> x.q,
                  known |-> questions[x.q], order |-> x.order,
                  override |-> x.override])
  /\ UNCHANGED db

\* A question already in the set is refused; a missing position is the next one.
AddLoadItems(r) ==
  LET x == req[r] IN
  /\ x.at = "add.item"
  /\ \/ (\E i \in DOMAIN items : items[i].q = x.q) /\ Return(r)
     \/ /\ \A i \in DOMAIN items : items[i].q # x.q
        /\ Continue(r, [at |-> "add.insert", seen |-> x.seen, q |-> x.q, known |-> x.known,
                        item |-> [q |-> x.q, override |-> x.override,
                                  order |-> IF x.order = Null THEN NextOrder(items)
                                            ELSE x.order]])
  /\ UNCHANGED db

\* The flush of the insert waits for the keys, then fails or holds them.
AddInsert(r) ==
  LET x == req[r] IN
  /\ x.at = "add.insert"
  /\ ~KeysHeld(r, x.item)
  /\ \/ Conflicts(items, x.item) /\ Return(r) /\ UNCHANGED db
     \/ /\ ~Conflicts(items, x.item)
        /\ created' = created + 1
        /\ Continue(r, [at |-> "add.recalculate", seen |-> x.seen, q |-> x.q,
                        known |-> x.known, id |-> created', item |-> x.item])
        /\ UNCHANGED <<questions, items, total, paper>>

ItemsCommitted(x) == items  \* mutant: the session's own insert is not seen

\* The items the session sees: the committed ones and its own insert.
ItemsWithOwn(x) == WithRow(items, x.id, x.item)

AddRecalculate(r) ==
  LET x == req[r] IN
  /\ x.at = "add.recalculate"
  /\ Continue(r, [at |-> "add.save", seen |-> x.seen, q |-> x.q, id |-> x.id,
                  item |-> x.item, total |-> SetTotal(ItemsWithOwn(x), BankSeen(x))])
  /\ UNCHANGED db

AddSave(r) ==
  LET x == req[r] IN
  /\ x.at = "add.save"
  /\ items' = WithRow(items, x.id, x.item)
  /\ total' = Flushed(total, x.seen, x.total)
  /\ Return(r)
  /\ UNCHANGED <<questions, created, paper>>

-----------------------------------------------------------------------------
(* remove_question_set_item.                                               *)

RemoveLoadSet(r, id) ==
  /\ id <= created
  /\ Begin(r, [at |-> "remove.item", seen |-> total, id |-> id])
  /\ UNCHANGED db

RemoveLoadItem(r) ==
  LET x == req[r] IN
  /\ x.at = "remove.item"
  /\ \/ x.id \notin DOMAIN items /\ Return(r)
     \/ /\ x.id \in DOMAIN items
        /\ Continue(r, [at |-> "remove.delete", seen |-> x.seen, id |-> x.id,
                        q |-> items[x.id].q, known |-> questions[items[x.id].q]])
  /\ UNCHANGED db

\* The delete waits for whoever holds the row; a row already gone is no error.
RemoveDelete(r) ==
  LET x == req[r] IN
  /\ x.at = "remove.delete"
  /\ ~ItemHeld(r, x.id)
  /\ Continue(r, [at |-> "remove.recalculate", seen |-> x.seen, id |-> x.id,
                  q |-> x.q, known |-> x.known])
  /\ UNCHANGED db

RemoveSubtract(r) ==  \* mutant: the item is subtracted from the total that was loaded
  LET x == req[r] IN
  /\ x.at = "remove.recalculate"
  /\ Continue(r, [at |-> "remove.save", seen |-> x.seen, id |-> x.id,
                  total |-> x.seen - (IF x.id \in DOMAIN items
                                      THEN Worth(items[x.id], BankSeen(x)) ELSE 0)])
  /\ UNCHANGED db

RemoveRecalculate(r) ==
  LET x == req[r] IN
  /\ x.at = "remove.recalculate"
  /\ Continue(r, [at |-> "remove.save", seen |-> x.seen, id |-> x.id,
                  total |-> SetTotal(Without(items, x.id), BankSeen(x))])
  /\ UNCHANGED db

RemoveSave(r) ==
  LET x == req[r] IN
  /\ x.at = "remove.save"
  /\ items' = Without(items, x.id)
  /\ total' = Flushed(total, x.seen, x.total)
  /\ Return(r)
  /\ UNCHANGED <<questions, created, paper>>

-----------------------------------------------------------------------------
(* reorder_question_set: item ids[k] gets position places[k].  The items are  *)
(* loaded one by one, moved to Aside + 1, Aside + 2, ... by one flush and to  *)
(* their places by a second.  A flush writes the rows whose position differs  *)
(* from the one the session knows, in the order of their primary keys.  The   *)
(* keys are random; here they grow, and a payload names items in any order.   *)

ReorderLoad(r, ids, places) ==
  /\ Begin(r, [at |-> "reorder.load", ids |-> ids, places |-> places, loaded |-> << >>])
  /\ UNCHANGED db

\* The k-th rows of the payload that a flush from these to those positions writes.
Differing(known, positions) == {k \in DOMAIN known : known[k] # positions[k]}

AsideTogether(ids) ==  \* mutant: all items wait in one place
  [k \in DOMAIN ids |-> Aside + 1]

AsideOf(ids) == [k \in DOMAIN ids |-> Aside + k]

\* The first flush begins when the last item is loaded.
ReorderLoadItem(r) ==
  LET x == req[r]
      k == Len(x.loaded) + 1
      loaded == Append(x.loaded, items[x.ids[k]].order)
  IN
  /\ x.at = "reorder.load"
  /\ \/ x.ids[k] \notin DOMAIN items /\ Return(r)
     \/ /\ x.ids[k] \in DOMAIN items /\ k < Len(x.ids)
        /\ Continue(r, [x EXCEPT !.loaded = loaded])
     \/ /\ x.ids[k] \in DOMAIN items /\ k = Len(x.ids)
        /\ Continue(r, [at |-> "reorder.aside", ids |-> x.ids, places |-> x.places,
                        loaded |-> loaded, todo |-> Differing(loaded, AsideOf(x.ids)),
                        own |-> << >>, keys |-> {}])
  /\ UNCHANGED db

\* The second flush begins.
ReorderPlace(r) ==
  LET x == req[r] IN
  /\ x.at = "reorder.aside" /\ x.todo = {}
  /\ Continue(r, [x EXCEPT !.at = "reorder.place",
                           !.todo = Differing(AsideOf(x.ids), x.places)])
  /\ UNCHANGED db

\* The rows of the flush in hand, the positions it writes, and the row that is next.
Flushing(x) == IF x.at = "reorder.aside" THEN Differing(x.loaded, AsideOf(x.ids))
               ELSE Differing(AsideOf(x.ids), x.places)

Target(x) == IF x.at = "reorder.aside" THEN AsideOf(x.ids) ELSE x.places

NextRow(x, k) == k \in x.todo /\ \A n \in x.todo : x.ids[k] <= x.ids[n]

\* The rows that r sees: the committed ones with its own.
Own(r) ==
  IF Inserting(r) THEN [i \in {req[r].id} |-> req[r].item]
  ELSE IF Reordering(r)
  THEN [i \in DOMAIN req[r].own |-> [q |-> items[i].q, order |-> req[r].own[i],
                                     override |-> items[i].override]]
  ELSE << >>

Seen(r) == Updated(items, Own(r))

\* A row that is gone fails a flush that writes nothing else; one that writes several
\* rows may pass over it, if the driver does not count them.
ReorderGone(r) ==
  LET x == req[r] IN
  /\ Reordering(r)
  /\ \E k \in DOMAIN x.ids :
       /\ NextRow(x, k) /\ x.ids[k] \notin DOMAIN items
       /\ \/ Return(r)
          \/ Flushing(x) # {k} /\ Continue(r, [x EXCEPT !.todo = @ \ {k}])
  /\ UNCHANGED db

\* The write of a row waits for whoever holds the row, then for whoever holds the
\* position; one that is taken fails the request, and nothing catches the error.
ReorderWrite(r) ==
  LET x == req[r] IN
  /\ Reordering(r)
  /\ \E k \in DOMAIN x.ids :
       LET i == x.ids[k]  order == Target(x)[k]
           taken == \E j \in DOMAIN items \ {i} : Seen(r)[j].order = order
       IN
       /\ NextRow(x, k) /\ i \in DOMAIN items
       /\ ~ItemHeld(r, i) /\ ~PositionHeld(r, order)
       /\ \/ taken /\ Return(r)
          \/ /\ ~taken
             /\ Continue(r, [x EXCEPT !.todo = @ \ {k}, !.keys = @ \cup {order},
                                      !.own = Updated(@, [j \in {i} |-> order])])
  /\ UNCHANGED db

\* p has to wait for q.  An insert or a delete that waits holds nothing yet.
WaitsFor(p, q) ==
  LET x == req[p] IN
  /\ Reordering(p) /\ p # q
  /\ \E k \in DOMAIN x.ids :
       /\ NextRow(x, k) /\ x.ids[k] \in DOMAIN items
       /\ IF ItemHeld(p, x.ids[k]) THEN x.ids[k] \in HeldRows(q)
          ELSE Target(x)[k] \in HeldPositions(q)

\* r is in a cycle of waits.
InCycle(r) ==
  \E C \in SUBSET Requests :
    /\ r \in C
    /\ \A p \in C : (\E q \in C : WaitsFor(p, q)) /\ (\E q \in C : WaitsFor(q, p))

\* The database aborts one of those that wait for each other.
ReorderAbort(r) ==
  /\ Reordering(r) /\ InCycle(r)
  /\ Return(r)
  /\ UNCHANGED db

ReorderSave(r) ==
  LET x == req[r] IN
  /\ x.at = "reorder.place" /\ x.todo = {}
  /\ items' = Seen(r)
  /\ Return(r)
  /\ UNCHANGED <<questions, total, created, paper>>

-----------------------------------------------------------------------------
(* create_assessment from the set: the set, its items and their questions    *)
(* are loaded by three SELECTs.                                              *)

PaperLoadSet(r) ==
  /\ Begin(r, [at |-> "paper.items", total |-> total])
  /\ UNCHANGED db

\* A set without items is refused.
PaperLoadItems(r) ==
  LET x == req[r] IN
  /\ x.at = "paper.items"
  /\ \/ items = << >> /\ Return(r)
     \/ /\ items # << >>
        /\ Continue(r, [at |-> "paper.questions", total |-> x.total, items |-> items])
  /\ UNCHANGED db

PaperMarksPlain(rows) ==  \* mutant: overrides are not copied
  [i \in DOMAIN rows |-> QuestionMarks(rows[i], questions)]

PaperMarks(rows) == [i \in DOMAIN rows |-> Worth(rows[i], questions)]

PaperLoadQuestions(r) ==
  LET x == req[r] IN
  /\ x.at = "paper.questions"
  /\ Continue(r, [at |-> "paper.save", paper |-> [total |-> x.total,
                                                 marks |-> PaperMarks(x.items)]])
  /\ UNCHANGED db

PaperSave(r) ==
  /\ req[r].at = "paper.save"
  /\ paper' = req[r].paper
  /\ Return(r)
  /\ UNCHANGED <<questions, items, total, created>>

-----------------------------------------------------------------------------
QuestionStep(r) ==
  \/ \E q \in Questions, marks \in Marks : UpdateLoad(r, q, marks)
  \/ UpdateSave(r)

AddRest(r) ==
  AddLoadQuestion(r) \/ AddLoadItems(r) \/ AddInsert(r) \/ AddRecalculate(r) \/ AddSave(r)

RemoveStep(r) ==
  \/ \E id \in ItemIds : RemoveLoadSet(r, id)
  \/ RemoveLoadItem(r) \/ RemoveDelete(r) \/ RemoveRecalculate(r) \/ RemoveSave(r)

ReorderStep(r) ==
  \/ \E n \in 1 .. Cardinality(DOMAIN items) :
       \E ids \in [1 .. n -> DOMAIN items], places \in [1 .. n -> Orders] :
         IsInjective(ids) /\ ReorderLoad(r, ids, places)
  \/ ReorderLoadItem(r) \/ ReorderPlace(r)
  \/ ReorderGone(r) \/ ReorderWrite(r) \/ ReorderAbort(r) \/ ReorderSave(r)

PaperStep(r) ==
  \/ PaperLoadSet(r) \/ PaperLoadItems(r) \/ PaperLoadQuestions(r) \/ PaperSave(r)

-----------------------------------------------------------------------------
(* Types.                                                                  *)

Item == [q : Questions, order : Nat, override : Marks \cup {Null}]

IsPaper(p) ==
  p.total \in Nat /\ DOMAIN p.marks \subseteq ItemIds /\ Range(p.marks) \subseteq Nat

\* Rows have their columns' types, an item has an id that was generated, and an
\* item that is being inserted has one of its own.
TypeOK ==
  /\ questions \in [Questions -> Nat \ {0}]
  /\ DOMAIN items \subseteq 1 .. created
  /\ \A i \in DOMAIN items : items[i] \in Item
  /\ total \in Nat /\ created \in 0 .. MaxItems
  /\ paper = Null \/ IsPaper(paper)
  /\ \A r \in Requests :
       Inserting(r) => req[r].id \in (1 .. created) \ DOMAIN items /\ req[r].item \in Item

(* Safety with any number of requests in flight.                           *)

\* No two rows have a key in common.
RowsUnique(rows) == \A i, j \in DOMAIN rows : i # j => ~SameKey(rows[i], rows[j])

\* A question is in the set once and a position is taken once: among the rows that are
\* committed, among those that any request sees, halfway a reorder too, and among those
\* that two requests have written and not committed.  Add looks for the question and for
\* a free position two SELECTs before it inserts, and a reorder never looks.
KeysUnique ==
  /\ RowsUnique(items)
  /\ \A r \in Requests : RowsUnique(Seen(r))
  /\ \A r, p \in Requests : r # p =>
       \A i \in DOMAIN Own(r), j \in DOMAIN Own(p) : i # j /\ ~SameKey(Own(r)[i], Own(p)[j])

\* What a reorder may fail for while it writes: it waits in a circle with another; an
\* item it names is gone; it names a position twice, or the position of an item that it
\* does not name; or some position lies beyond Aside, where items wait.
CauseToFail(r) ==
  LET x == req[r] IN
  \/ InCycle(r)
  \/ ~(Range(x.ids) \subseteq DOMAIN items)
  \/ ~IsInjective(x.places)
  \/ \E i \in DOMAIN items \ Range(x.ids) : items[i].order \in Range(x.places)
  \/ \E order \in Range(x.places) \cup Range(x.loaded) \cup {items[i].order : i \in DOMAIN items} :
       order > Aside

\* A reorder has no other cause to fail: items may change places with each other, in
\* any order of the payload, whoever else adds, removes and reorders meanwhile.
ReordersFailForCause ==
  [][\A r \in Requests :
       Reordering(r) /\ req[r].todo # {} /\ req'[r] = Idle => CauseToFail(r)]_vars

(* Rules of the handlers taken one at a time; with two requests in flight    *)
(* each of them fails.                                                       *)

\* "recalculates total marks": a request that changes the set's items leaves a
\* total that is the sum of what the items are worth.
RecalculatedWithItems ==
  [][OneAtATime /\ DOMAIN items' # DOMAIN items => total' = SetTotal(items', questions')]_vars

\* An assessment made from a set whose total is right has that total, and its
\* questions' marks add up to it.
PaperAddsUp ==
  [][OneAtATime /\ paper' # paper /\ total = SetTotal(items, questions)
       => /\ paper'.total = total
          /\ SumFunction(paper'.marks) = paper'.total]_vars
=============================================================================
