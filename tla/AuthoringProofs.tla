--------------------------- MODULE AuthoringProofs ---------------------------
(***************************************************************************)
(* Proofs about QuestionAuthoring for every bank, every set of questions,   *)
(* slugs and payloads, and any number of requests in flight.               *)
(***************************************************************************)
EXTENDS QuestionAuthoring, ProofLemmas

-----------------------------------------------------------------------------
(* The steps of a behaviour.  The handlers of the set, of the library and of   *)
(* the assessment's window share the request slots but no label.               *)

\* The labels of the handlers of question sets.
SetLabels ==
  {"update.save", "add.question", "add.item", "add.insert", "add.recalculate", "add.save",
   "remove.item", "remove.delete", "remove.recalculate", "remove.save",
   "reorder.load", "reorder.aside", "reorder.place",
   "paper.items", "paper.questions", "paper.save"}

\* The labels of the handlers of the bank and its jobs.
LibraryLabels == {"edit.save", "approve.topic", "approve.insert", "approve.save"}

\* The handlers of question sets, whatever their payload.
SetHandler(r) ==
  \/ \E q \in Questions, order \in Orders \cup {Null}, override \in Marks \cup {Null} :
       AddLoadSet(r, q, order, override)
  \/ AddRest(r) \/ RemoveStep(r) \/ ReorderStep(r) \/ QuestionStep(r) \/ PaperStep(r)

\* A step of the sets is one of them.
LEMMA SetHandlers == ASSUME NEW r \in Requests, SetStep(r) PROVE SetHandler(r)
BY DEF SetStep, PositionsStep, TotalsStep, SetHandler

\* The labels of a reorder.
ReorderLabels == {"reorder.load", "reorder.aside", "reorder.place"}

\* A reorder changes its own slot only, to a label of its part.
LEMMA ReorderSlot ==
  ASSUME Slots, NEW r \in Requests, ReorderStep(r)
  PROVE  OnlySlot(r, ReorderLabels)
<1> USE DEF OnlySlot, Slots, ReorderLabels, Begin, Continue, Return, Idle
<1>1. ASSUME NEW ids, NEW places, ReorderLoad(r, ids, places) PROVE OnlySlot(r, ReorderLabels)
  BY <1>1 DEF ReorderLoad
<1>2. CASE ReorderLoadItem(r)
  <2> DEFINE x == req[r]
             loaded == Append(x.loaded, items[x.ids[Len(x.loaded) + 1]].order)
             more == [x EXCEPT !.loaded = loaded]
             done == [at |-> "reorder.aside", ids |-> x.ids, places |-> x.places,
                      loaded |-> loaded, todo |-> Differing(loaded, AsideOf(x.ids)),
                      own |-> << >>, keys |-> {}]
  <2>1. "at" \in DOMAIN more /\ more.at = x.at /\ "at" \in DOMAIN done /\ done.at = "reorder.aside"
    OBVIOUS
  <2>2. x.at = "reorder.load" /\ (Return(r) \/ Continue(r, more) \/ Continue(r, done))
    BY <1>2 DEF ReorderLoadItem
  <2> HIDE DEF more, done
  <2> QED BY <2>1, <2>2
<1>3. CASE ReorderPlace(r) \/ ReorderGone(r) \/ ReorderWrite(r)
  <2>0. Reordering(r) /\ "at" \in DOMAIN req[r]
    BY <1>3 DEF ReorderPlace, ReorderGone, ReorderWrite, Reordering
  <2>1. \E y : /\ Return(r) \/ Continue(r, y)
               /\ "at" \in DOMAIN y /\ y.at \in {req[r].at, "reorder.place"}
    <3> HIDE DEF Begin, Continue, Return, OnlySlot, Slots
    <3>1. CASE ReorderPlace(r)
      BY <2>0, <3>1 DEF ReorderPlace
    <3>2. CASE ReorderGone(r)
      BY <2>0, <3>2 DEF ReorderGone
    <3>3. CASE ReorderWrite(r)
      <4>1. PICK todo, keys, own :
              Return(r) \/ Continue(r, [req[r] EXCEPT !.todo = todo, !.keys = keys, !.own = own])
        BY <3>3 DEF ReorderWrite
      <4> DEFINE y == [req[r] EXCEPT !.todo = todo, !.keys = keys, !.own = own]
      <4>2. "at" \in DOMAIN y /\ y.at = req[r].at
        BY <2>0
      <4> HIDE DEF y
      <4> QED BY <4>1, <4>2 DEF y
    <3> QED BY <1>3, <3>1, <3>2, <3>3
  <2> QED BY <2>0, <2>1 DEF Reordering
<1>4. CASE ReorderAbort(r) \/ ReorderSave(r)
  BY <1>4 DEF ReorderAbort, ReorderSave, Reordering
<1> QED BY <1>1, <1>2, <1>3, <1>4 DEF ReorderStep

\* A handler changes its own slot only, to a label of its part.
LEMMA SetSlot ==
  ASSUME Slots, NEW r \in Requests, SetHandler(r)
  PROVE  OnlySlot(r, SetLabels)
<1> USE DEF OnlySlot, Slots, SetLabels, Begin, Continue, Return, Idle
<1>1. CASE QuestionStep(r)
  BY <1>1 DEF QuestionStep, UpdateLoad, UpdateSave
<1>2. ASSUME NEW q, NEW order, NEW override, AddLoadSet(r, q, order, override)
      PROVE  OnlySlot(r, SetLabels)
  BY <1>2 DEF AddLoadSet
<1>3. CASE AddRest(r)
  BY <1>3 DEF AddRest, AddLoadQuestion, AddLoadItems, AddInsert, AddRecalculate, AddSave
<1>4. CASE RemoveStep(r)
  BY <1>4 DEF RemoveStep, RemoveLoadSet, RemoveLoadItem, RemoveDelete, RemoveRecalculate,
              RemoveSave
<1>5. CASE ReorderStep(r)
  BY <1>5, ReorderSlot DEF ReorderLabels
<1>6. CASE PaperStep(r)
  BY <1>6 DEF PaperStep, PaperLoadSet, PaperLoadItems, PaperLoadQuestions, PaperSave
<1> QED BY <1>1, <1>2, <1>3, <1>4, <1>5, <1>6 DEF SetHandler

\* The same of the bank and its jobs.
LEMMA LibraryHandlerSlot ==
  ASSUME Slots, NEW r \in Requests, BankStep(r) \/ JobStep(r)
  PROVE  OnlySlot(r, LibraryLabels)
<1> USE DEF OnlySlot, Slots, LibraryLabels, Begin, Continue, Return, Idle
<1>1. CASE BankStep(r)
  BY <1>1 DEF BankStep, CreateTopic, CreateQuestion, EditLoad, EditSave
<1>2. CASE ApproveTopic(r)
  BY <1>2 DEF ApproveTopic
<1>3. ASSUME NEW j, NEW indexes, NEW status, ApproveLoad(r, j, indexes, status)
      PROVE  OnlySlot(r, LibraryLabels)
  BY <1>3 DEF ApproveLoad
<1>4. CASE ApproveInsert(r) \/ ApproveSave(r)
  BY <1>4 DEF ApproveInsert, ApproveSave
<1>5. ASSUME NEW slug, CreateTopic(r, slug) PROVE OnlySlot(r, LibraryLabels)
  BY <1>5 DEF CreateTopic
<1>6. ASSUME NEW asked, CreateJob(r, asked) PROVE OnlySlot(r, LibraryLabels)
  BY <1>6 DEF CreateJob
<1> QED BY <1>1, <1>2, <1>3, <1>4, <1>5, <1>6 DEF JobStep

\* The same of every step of theirs.
LEMMA LibrarySlot ==
  ASSUME Slots, NEW r \in Requests, LibraryStep(r)
  PROVE  OnlySlot(r, LibraryLabels)
BY LibraryHandlerSlot DEF LibraryStep

\* The same of an assessment's window.
LEMMA WindowSlot ==
  ASSUME Slots, NEW r \in Requests, WindowStep(r)
  PROVE  OnlySlot(r, {"window.save"})
<1> USE DEF OnlySlot, Slots, Begin, Return, Idle
<1>1. ASSUME NEW starts, NEW ends, NEW asked, NEW batch,
             CreateAssessment(r, starts, ends, asked, batch)
      PROVE  OnlySlot(r, {"window.save"})
  BY <1>1 DEF CreateAssessment
<1>2. ASSUME NEW new, UpdateWindow(r, new) PROVE OnlySlot(r, {"window.save"})
  BY <1>2 DEF UpdateWindow
<1>3. ASSUME NEW starts, NEW ends, ScheduleAssessment(r, starts, ends)
      PROVE  OnlySlot(r, {"window.save"})
  BY <1>3 DEF ScheduleAssessment
<1>4. ASSUME NEW force, PublishAssessment(r, force) PROVE OnlySlot(r, {"window.save"})
  BY <1>4 DEF PublishAssessment
<1>5. CASE WindowSave(r)
  BY <1>5 DEF WindowSave
<1> QED BY <1>1, <1>2, <1>3, <1>4, <1>5 DEF WindowStep

-----------------------------------------------------------------------------
(* The set: a question and a position are in it once.                          *)

\* What a reorder that writes carries.
ReorderFlush(x) ==
  /\ x = [at |-> x.at, ids |-> x.ids, places |-> x.places, loaded |-> x.loaded,
          todo |-> x.todo, own |-> x.own, keys |-> x.keys]
  /\ DOMAIN x.own \subseteq DOMAIN items /\ \A i \in DOMAIN x.own : x.own[i] \in x.keys

\* What one request has moved, another has not deleted.
Apart(r, p) == Reordering(r) /\ Deleting(p) => req[p].id \notin DOMAIN req[r].own

\* An insert that is not committed has an id of its own.
KeysInv ==
  /\ Slots
  /\ created \in Nat
  /\ DOMAIN items \subseteq 1 .. created
  /\ \A r \in Requests : Inserting(r) => req[r].id \in (1 .. created) \ DOMAIN items
  /\ \A r \in Requests : Reordering(r) => ReorderFlush(req[r])
  /\ \A r, p \in Requests : Apart(r, p)
  /\ KeysUnique

\* The rows that a request has written and not committed.
LEMMA OwnRows ==
  ASSUME NEW r
  PROVE  /\ Inserting(r) => DOMAIN Own(r) = {req[r].id} /\ Own(r)[req[r].id] = req[r].item
         /\ Reordering(r) => /\ DOMAIN Own(r) = DOMAIN req[r].own
                             /\ \A i \in DOMAIN Own(r) : /\ Own(r)[i].q = items[i].q
                                                         /\ Own(r)[i].order = req[r].own[i]
         /\ ~Inserting(r) /\ ~Reordering(r) => DOMAIN Own(r) = {}
BY DEF Own, Inserting, Reordering

\* The rows that a request sees.
LEMMA SeenRows ==
  ASSUME NEW r
  PROVE  /\ DOMAIN Seen(r) = DOMAIN items \cup DOMAIN Own(r)
         /\ \A i \in DOMAIN Seen(r) :
              Seen(r)[i] = IF i \in DOMAIN Own(r) THEN Own(r)[i] ELSE items[i]
BY DEF Seen, Updated

\* The same after a step.
LEMMA SeenAfter ==
  ASSUME NEW r
  PROVE  /\ DOMAIN Seen(r)' = DOMAIN items' \cup DOMAIN Own(r)'
         /\ \A i \in DOMAIN Seen(r)' :
              Seen(r)'[i] = IF i \in DOMAIN Own(r)' THEN Own(r)'[i] ELSE items'[i]
BY DEF Seen, Updated

\* What the other requests hold and see while nothing is committed.
LEMMA OthersKept ==
  ASSUME NEW r \in Requests, NEW labels, OnlySlot(r, labels), UNCHANGED items
  PROVE  \A p \in Requests \ {r} :
           /\ req'[p] = req[p] /\ Own(p)' = Own(p) /\ Seen(p)' = Seen(p)
           /\ ReorderFlush(req[p])' = ReorderFlush(req[p]) /\ Inserting(p)' = Inserting(p)
           /\ Reordering(p)' = Reordering(p) /\ Deleting(p)' = Deleting(p)
<1> TAKE p \in Requests \ {r}
<1>1. req'[p] = req[p]
  BY DEF OnlySlot
<1>2. /\ Inserting(p)' = Inserting(p) /\ Reordering(p)' = Reordering(p)
      /\ Deleting(p)' = Deleting(p) /\ ReorderFlush(req[p])' = ReorderFlush(req[p])
  BY <1>1 DEF Inserting, Reordering, Deleting, ReorderFlush
<1>3. Own(p)' = Own(p)
  BY <1>1, <1>2 DEF Own
<1>4. Seen(p)' = Seen(p)
  BY <1>3 DEF Seen, Updated
<1> QED BY <1>1, <1>2, <1>3, <1>4

\* A step that commits nothing keeps the keys, if what its request has written by
\* then has none in common with what it sees and with what others have written.
LEMMA KeysPending ==
  ASSUME KeysInv, NEW r \in Requests, NEW labels, OnlySlot(r, labels), UNCHANGED items,
         created' \in {created, created + 1},
         Inserting(r)' => req'[r].id \in (1 .. created') \ DOMAIN items,
         Reordering(r)' => ReorderFlush(req[r])',
         \A p \in Requests : Apart(r, p)' /\ Apart(p, r)',
         RowsUnique(Seen(r)'),
         \A p \in Requests \ {r} : \A i \in DOMAIN Own(r)', j \in DOMAIN Own(p) :
           i # j /\ ~SameKey(Own(r)'[i], Own(p)[j])
  PROVE  KeysInv'
<1>1. \A p \in Requests \ {r} :
        /\ req'[p] = req[p] /\ Own(p)' = Own(p) /\ Seen(p)' = Seen(p)
        /\ ReorderFlush(req[p])' = ReorderFlush(req[p]) /\ Inserting(p)' = Inserting(p)
        /\ Reordering(p)' = Reordering(p) /\ Deleting(p)' = Deleting(p)
  BY OthersKept
<1>2. /\ Slots' /\ created' \in Nat /\ DOMAIN items' \subseteq 1 .. created'
      /\ 1 .. created \subseteq 1 .. created'
  BY DEF KeysInv, OnlySlot
<1>3. \A p \in Requests : Inserting(p)' => req'[p].id \in (1 .. created') \ DOMAIN items'
  BY <1>1, <1>2 DEF KeysInv
<1>4. \A p \in Requests : Reordering(p)' => ReorderFlush(req[p])'
  BY <1>1 DEF KeysInv
<1>5. \A p, q \in Requests : Apart(p, q)'
  BY <1>1 DEF KeysInv, Apart
<1>6. RowsUnique(items') /\ \A p \in Requests : RowsUnique(Seen(p)')
  BY <1>1 DEF KeysInv, KeysUnique
<1>7. \A p, q \in Requests : p # q =>
        \A i \in DOMAIN Own(p)', j \in DOMAIN Own(q)' : i # j /\ ~SameKey(Own(p)'[i], Own(q)'[j])
  <2>1. ASSUME NEW p \in Requests \ {r}, NEW q \in Requests \ {r}, p # q,
               NEW i \in DOMAIN Own(p), NEW j \in DOMAIN Own(q)
        PROVE  i # j /\ ~SameKey(Own(p)[i], Own(q)[j])
    BY <2>1 DEF KeysInv, KeysUnique
  <2>2. ASSUME NEW p \in Requests \ {r}, NEW i \in DOMAIN Own(p), NEW j \in DOMAIN Own(r)'
        PROVE  i # j /\ ~SameKey(Own(p)[i], Own(r)'[j])
    BY <2>2 DEF SameKey
  <2> QED BY <1>1, <2>1, <2>2
<1>8. KeysUnique'
  BY <1>6, <1>7 DEF KeysUnique, RowsUnique, SameKey
<1> QED BY <1>2, <1>3, <1>4, <1>5, <1>8 DEF KeysInv

\* A request that has written nothing by then.
LEMMA KeysQuiet ==
  ASSUME KeysInv, NEW r \in Requests, NEW labels, OnlySlot(r, labels),
         UNCHANGED <<items, created>>, ~Inserting(r)',
         Reordering(r)' => ReorderFlush(req[r])' /\ DOMAIN req'[r].own = {},
         \A p \in Requests : Apart(p, r)'
  PROVE  KeysInv'
<1>1. DOMAIN Own(r)' = {}
  BY OwnRows DEF Own
<1>2. RowsUnique(Seen(r)')
  BY <1>1, SeenAfter DEF KeysInv, KeysUnique, RowsUnique
<1>3. \A p \in Requests : Apart(r, p)'
  BY DEF Apart
<1> QED BY <1>1, <1>2, <1>3, KeysPending

\* An empty set has unique keys.
LEMMA KeysInit == AuthoringInit => KeysInv
<1> SUFFICES ASSUME AuthoringInit PROVE KeysInv
  OBVIOUS
<1>1. \A r \in Requests : req[r].at \in {"idle", "unused"}
  BY DEF AuthoringInit, Init, InitRequests, Idle, Unused
<1>2. /\ Slots /\ created = 0 /\ DOMAIN items = {}
      /\ \A r \in Requests : ~Inserting(r) /\ ~Reordering(r)
  BY <1>1 DEF AuthoringInit, Init, InitRequests, Idle, Unused, Slots, Inserting, Reordering,
              Apart
<1>3. \A r \in Requests : DOMAIN Own(r) = {} /\ DOMAIN Seen(r) = {}
  BY <1>2, OwnRows, SeenRows
<1> QED BY <1>2, <1>3 DEF KeysInv, KeysUnique, RowsUnique, Apart

\* What a request has written it holds.
LEMMA OwnHeld ==
  ASSUME KeysInv, NEW p \in Requests, NEW j \in DOMAIN Own(p)
  PROVE  /\ Own(p)[j].q \in HeldQuestions(p) /\ Own(p)[j].order \in HeldPositions(p)
         /\ j \in 1 .. created /\ (j \in DOMAIN items => j \in HeldRows(p))
<1>1. CASE Inserting(p)
  <2>0. DOMAIN Own(p) = {req[p].id} /\ Own(p)[req[p].id] = req[p].item
    BY <1>1, OwnRows
  <2>1. j = req[p].id /\ Own(p)[j] = req[p].item /\ j \in (1 .. created) \ DOMAIN items
    <3>1. req[p].id \in (1 .. created) \ DOMAIN items
      BY <1>1 DEF KeysInv
    <3> QED BY <2>0, <3>1
  <2>2. req[p].item.q \in HeldQuestions(p) /\ req[p].item.order \in HeldPositions(p)
    BY <1>1 DEF HeldQuestions, HeldPositions, Inserting
  <2> QED BY <2>1, <2>2
<1>2. CASE Reordering(p)
  <2>1. ~Inserting(p) /\ HeldRows(p) = DOMAIN req[p].own
    BY <1>2 DEF Inserting, Reordering, HeldRows
  <2>2. /\ j \in DOMAIN req[p].own /\ j \in DOMAIN items /\ req[p].own[j] \in req[p].keys
        /\ Own(p)[j].q = items[j].q /\ Own(p)[j].order = req[p].own[j]
    BY <1>2, OwnRows DEF KeysInv, ReorderFlush
  <2> QED BY <1>2, <2>1, <2>2 DEF HeldQuestions, HeldPositions, KeysInv
<1> QED BY <1>1, <1>2, OwnRows

\* An insert that would repeat a question or a place is refused by the unique
\* constraints, and waits for one that is not committed yet.
LEMMA KeysAddInsert ==
  ASSUME KeysInv, NEW r \in Requests, AddInsert(r)
  PROVE  KeysInv'
<1> USE DEF AddInsert
<1> DEFINE x == req[r]
<1>1. OnlySlot(r, SetLabels) /\ Slots
  BY SetSlot DEF SetHandler, AddRest, KeysInv
<1>2. CASE Conflicts(items, x.item)
  <2>1. /\ ~Inserting(r)' /\ ~Reordering(r)' /\ ~Deleting(r)'
        /\ UNCHANGED <<items, created>>
    BY <1>1, <1>2 DEF Inserting, Reordering, Deleting, db, Return, Slots, Idle
  <2> QED BY <1>1, <2>1, KeysQuiet DEF Apart
<1>3. CASE ~Conflicts(items, x.item)
  <2>1. /\ created' = created + 1 /\ UNCHANGED items
        /\ req'[r].item = x.item /\ req'[r].id = created'
        /\ req'[r].at = "add.recalculate"
    BY <1>1, <1>3 DEF Continue, Slots
  <2>2. /\ Inserting(r)' /\ ~Reordering(r)' /\ ~Deleting(r)'
        /\ \A p \in Requests : Apart(r, p)' /\ Apart(p, r)'
    BY <2>1 DEF Inserting, Reordering, Deleting, Apart
  <2>3. DOMAIN Own(r)' = {created'} /\ Own(r)'[created'] = x.item
    BY <2>1, <2>2 DEF Own
  <2>4. created' \notin 1 .. created /\ created' \in 1 .. created' /\ created' \notin DOMAIN items
    BY <2>1 DEF KeysInv
  <2>5. RowsUnique(Seen(r)')
    <3>1. /\ DOMAIN Seen(r)' = DOMAIN items \cup {created'}
          /\ \A i \in DOMAIN Seen(r)' : Seen(r)'[i] = IF i = created' THEN x.item ELSE items[i]
      BY <2>1, <2>3, SeenAfter
    <3> QED BY <1>3, <2>4, <3>1 DEF Conflicts, SameKey, RowsUnique, KeysInv, KeysUnique
  <2>6. ASSUME NEW p \in Requests \ {r}, NEW j \in DOMAIN Own(p)
        PROVE  created' # j /\ ~SameKey(x.item, Own(p)[j])
    BY <2>4, <2>6, OwnHeld DEF KeysHeld, PositionHeld, SameKey
  <2> QED BY <1>1, <2>1, <2>2, <2>3, <2>4, <2>5, <2>6, KeysPending
<1> QED BY <1>2, <1>3

\* A row that a reorder writes is held by nobody else, and neither is its new position,
\* which no other row has that the request sees.
LEMMA KeysReorderWrite ==
  ASSUME KeysInv, NEW r \in Requests, ReorderWrite(r)
  PROVE  KeysInv'
<1> DEFINE x == req[r]
<1>1. /\ OnlySlot(r, SetLabels) /\ Slots /\ UNCHANGED <<items, created>>
      /\ Reordering(r) /\ ReorderFlush(x) /\ ~Inserting(r) /\ ~Deleting(r)
  BY SetSlot DEF SetHandler, ReorderStep, ReorderWrite, KeysInv, Inserting, Reordering, Deleting, db
<1>2. PICK k \in DOMAIN x.ids :
        LET i == x.ids[k]  order == Target(x)[k]
            taken == \E j \in DOMAIN items \ {i} : Seen(r)[j].order = order
        IN
        /\ i \in DOMAIN items
        /\ ~ItemHeld(r, i) /\ ~PositionHeld(r, order)
        /\ \/ taken /\ Return(r)
           \/ /\ ~taken
              /\ Continue(r, [x EXCEPT !.todo = @ \ {k}, !.keys = @ \cup {order},
                                       !.own = Updated(@, [j \in {i} |-> order])])
  BY DEF ReorderWrite
<1> DEFINE i == x.ids[k]  order == Target(x)[k]
<1>3. CASE Return(r)
  <2>1. ~Inserting(r)' /\ ~Reordering(r)' /\ ~Deleting(r)'
    BY <1>1, <1>3 DEF Inserting, Reordering, Deleting, Return, Slots, Idle
  <2> QED BY <1>1, <2>1, KeysQuiet DEF Apart
<1>4. CASE ~Return(r)
  <2>1. /\ i \in DOMAIN items /\ ~ItemHeld(r, i) /\ ~PositionHeld(r, order)
        /\ \A j \in DOMAIN items \ {i} : Seen(r)[j].order # order
        /\ req'[r] = [x EXCEPT !.todo = @ \ {k}, !.keys = @ \cup {order},
                               !.own = Updated(@, [j \in {i} |-> order])]
    BY <1>1, <1>2, <1>4 DEF Continue, Slots
  <2> HIDE DEF i, order
  <2>2. /\ req'[r].at = x.at /\ req'[r].keys = x.keys \cup {order}
        /\ req'[r].own = Updated(x.own, [j \in {i} |-> order])
        /\ req'[r] = [at |-> x.at, ids |-> x.ids, places |-> x.places, loaded |-> x.loaded,
                      todo |-> x.todo \ {k}, own |-> req'[r].own, keys |-> req'[r].keys]
    BY <1>1, <2>1 DEF ReorderFlush
  <2>3. /\ DOMAIN req'[r].own = DOMAIN x.own \cup {i}
        /\ \A j \in DOMAIN req'[r].own :
             req'[r].own[j] = IF j = i THEN order ELSE x.own[j]
    BY <2>2 DEF Updated
  <2>4. ReorderFlush(req[r])'
    BY <1>1, <2>1, <2>2, <2>3 DEF ReorderFlush
  <2>5. Reordering(r)' /\ ~Inserting(r)' /\ ~Deleting(r)'
    BY <1>1, <2>2 DEF Inserting, Reordering, Deleting
  <2>6. \A p \in Requests : Apart(r, p)' /\ Apart(p, r)'
    <3>1. ASSUME NEW p \in Requests, Deleting(p)' PROVE req'[p].id \notin DOMAIN req'[r].own
      <4>1. p # r /\ req'[p] = req[p]
        BY <1>1, <2>5, <3>1 DEF OnlySlot
      <4>2. Deleting(p) /\ ~Reordering(p) /\ req[p].id \in HeldRows(p)
        BY <1>1, <3>1, <4>1 DEF Deleting, Reordering, HeldRows
      <4>3. req[p].id \notin DOMAIN x.own /\ req[p].id # i
        BY <1>1, <2>1, <4>1, <4>2 DEF KeysInv, Apart, ItemHeld
      <4> QED BY <2>3, <4>1, <4>3
    <3> QED BY <2>5, <3>1 DEF Apart
  <2>7. /\ DOMAIN Own(r)' = DOMAIN Own(r) \cup {i}
        /\ \A j \in DOMAIN Own(r)' :
             /\ Own(r)'[j].q = items[j].q
             /\ Own(r)'[j].order = IF j = i THEN order ELSE Own(r)[j].order
    BY <1>1, <2>3, <2>5, OwnRows DEF Own
  <2>8. /\ DOMAIN Own(r) \subseteq DOMAIN items
        /\ \A j \in DOMAIN Own(r) : Own(r)[j].q = items[j].q
    BY <1>1, OwnRows DEF ReorderFlush
  <2>9. RowsUnique(Seen(r)')
    <3>1. /\ DOMAIN Seen(r) = DOMAIN items
          /\ \A j \in DOMAIN items : Seen(r)[j] = IF j \in DOMAIN Own(r) THEN Own(r)[j] ELSE items[j]
      BY <2>8, SeenRows
    <3>2. /\ DOMAIN Seen(r)' = DOMAIN items
          /\ \A j \in DOMAIN items :
               Seen(r)'[j] = IF j \in DOMAIN Own(r)' THEN Own(r)'[j] ELSE items[j]
      BY <1>1, <2>1, <2>7, <2>8, SeenAfter
    <3>3. \A j \in DOMAIN items :
            /\ Seen(r)'[j].q = items[j].q
            /\ Seen(r)'[j].order = IF j = i THEN order ELSE Seen(r)[j].order
      BY <2>1, <2>7, <3>1, <3>2
    <3>4. RowsUnique(items) /\ RowsUnique(Seen(r))
      BY DEF KeysInv, KeysUnique
    <3> QED BY <2>1, <3>1, <3>2, <3>3, <3>4 DEF RowsUnique, SameKey
  <2>10. ASSUME NEW p \in Requests \ {r}, NEW j \in DOMAIN Own(p)
         PROVE  i # j /\ order # Own(p)[j].order /\ items[i].q # Own(p)[j].q
    <3>1. i # j /\ order # Own(p)[j].order
      BY <2>1, <2>10, OwnHeld DEF ItemHeld, PositionHeld
    <3>2. i \notin DOMAIN Own(p)
      BY <2>1, <2>10, OwnHeld DEF ItemHeld
    <3>3. i \in DOMAIN Seen(p) /\ j \in DOMAIN Seen(p)
      BY <2>1, <2>10, SeenRows
    <3>4. Seen(p)[i] = items[i] /\ Seen(p)[j] = Own(p)[j]
      BY <2>10, <3>2, <3>3, SeenRows
    <3>5. RowsUnique(Seen(p))
      BY DEF KeysInv, KeysUnique
    <3> QED BY <3>1, <3>3, <3>4, <3>5 DEF RowsUnique, SameKey
  <2>11. ASSUME NEW p \in Requests \ {r}, NEW a \in DOMAIN Own(r)', NEW j \in DOMAIN Own(p)
         PROVE  a # j /\ ~SameKey(Own(r)'[a], Own(p)[j])
    <3>1. CASE a = i
      BY <2>7, <2>10, <2>11, <3>1 DEF SameKey
    <3>2. CASE a # i
      <4>1. a \in DOMAIN Own(r) /\ a # j /\ ~SameKey(Own(r)[a], Own(p)[j])
        BY <2>7, <2>11, <3>2 DEF KeysInv, KeysUnique
      <4> QED BY <2>7, <2>8, <3>2, <4>1 DEF SameKey
    <3> QED BY <3>1, <3>2
  <2> QED BY <1>1, <2>4, <2>5, <2>6, <2>9, <2>11, KeysPending
<1> QED BY <1>3, <1>4

\* What another request has written stays as it is, if its rows do.
LEMMA OwnKept ==
  ASSUME NEW r, NEW labels, OnlySlot(r, labels), NEW p \in Requests \ {r},
         Reordering(p) => \A i \in DOMAIN req[p].own : items'[i] = items[i]
  PROVE  Own(p)' = Own(p) /\ Inserting(p)' = Inserting(p) /\ Reordering(p)' = Reordering(p)
<1>1. req'[p] = req[p]
  BY DEF OnlySlot
<1>2. Inserting(p)' = Inserting(p) /\ Reordering(p)' = Reordering(p)
  BY <1>1 DEF Inserting, Reordering
<1>3. CASE Reordering(p)
  <2>1. ~Inserting(p) /\ ~Inserting(p)' /\ Reordering(p)'
    BY <1>2, <1>3 DEF Inserting, Reordering
  <2> QED BY <1>1, <1>2, <1>3, <2>1 DEF Own
<1>4. CASE ~Reordering(p)
  BY <1>1, <1>2, <1>4 DEF Own
<1> QED BY <1>2, <1>3, <1>4

\* A request that is through has written nothing more.
LEMMA IdleKeeps ==
  ASSUME NEW r \in Requests, req'[r] = Idle
  PROVE  /\ ~Inserting(r)' /\ ~Reordering(r)' /\ ~Deleting(r)' /\ DOMAIN Own(r)' = {}
<1>1. ~Inserting(r)' /\ ~Reordering(r)' /\ ~Deleting(r)'
  BY DEF Inserting, Reordering, Deleting, Idle
<1> QED BY <1>1 DEF Own

\* A commit makes what its request saw the rows that everybody sees.
LEMMA KeysCommit ==
  ASSUME KeysInv, NEW r \in Requests, NEW labels, OnlySlot(r, labels), req'[r] = Idle,
         UNCHANGED created, DOMAIN items' = DOMAIN Seen(r),
         \A i \in DOMAIN items' : items'[i] = Seen(r)[i]
  PROVE  KeysInv'
<1>1. /\ ~Inserting(r)' /\ ~Reordering(r)' /\ ~Deleting(r)' /\ DOMAIN Own(r)' = {}
  BY IdleKeeps
<1>2. /\ DOMAIN items' = DOMAIN items \cup DOMAIN Own(r)
      /\ \A i \in DOMAIN items' : items'[i] = IF i \in DOMAIN Own(r) THEN Own(r)[i] ELSE items[i]
  BY SeenRows
<1>3. ASSUME NEW p \in Requests \ {r}, NEW i \in DOMAIN Own(p), NEW j \in DOMAIN Own(r)
      PROVE  i # j /\ ~SameKey(Own(p)[i], Own(r)[j])
  BY DEF KeysInv, KeysUnique
<1>4. ASSUME NEW p \in Requests \ {r}
      PROVE  /\ req'[p] = req[p] /\ Own(p)' = Own(p)
             /\ Inserting(p)' = Inserting(p) /\ Reordering(p)' = Reordering(p)
  <2>1. ASSUME Reordering(p), NEW i \in DOMAIN req[p].own PROVE items'[i] = items[i]
    <3>1. i \in DOMAIN items /\ i \in DOMAIN Own(p)
      BY <2>1, OwnRows DEF KeysInv, ReorderFlush
    <3> QED BY <1>2, <1>3, <3>1
  <2> QED BY <2>1, OwnKept DEF OnlySlot
<1>5. DOMAIN items' \subseteq 1 .. created'
  BY <1>2, OwnHeld DEF KeysInv
<1>6. \A p \in Requests : Inserting(p)' => req'[p].id \in (1 .. created') \ DOMAIN items'
  <2>1. ASSUME NEW p \in Requests \ {r}, Inserting(p) PROVE req[p].id \notin DOMAIN items'
    <3>1. req[p].id \in DOMAIN Own(p) /\ req[p].id \notin DOMAIN items
      BY <2>1, OwnRows DEF KeysInv
    <3> QED BY <1>2, <1>3, <3>1
  <2> QED BY <1>1, <1>4, <2>1 DEF KeysInv
<1>7. \A p \in Requests : Reordering(p)' => ReorderFlush(req[p])'
  BY <1>1, <1>2, <1>4 DEF KeysInv, ReorderFlush
<1>8. \A p, q \in Requests : Apart(p, q)'
  <2>1. ASSUME NEW p \in Requests, NEW q \in Requests, Reordering(p)', Deleting(q)'
        PROVE  req'[q].id \notin DOMAIN req'[p].own
    <3>1. p # r /\ q # r /\ Reordering(p) /\ req'[p] = req[p] /\ req'[q] = req[q]
      BY <1>1, <1>4, <2>1
    <3>2. DOMAIN req[p].own \subseteq DOMAIN items
      BY <3>1 DEF KeysInv, ReorderFlush
    <3>3. req[q].id \in DOMAIN items => Deleting(q)
      BY <2>1, <3>1 DEF Deleting
    <3> QED BY <3>1, <3>2, <3>3 DEF KeysInv, Apart
  <2> QED BY <2>1 DEF Apart
<1>9. RowsUnique(items')
  BY DEF KeysInv, KeysUnique, RowsUnique
<1>10. \A p \in Requests : RowsUnique(Seen(p)')
  <2>1. RowsUnique(Seen(r)')
    <3>1. /\ DOMAIN Seen(r)' = DOMAIN items'
          /\ \A i \in DOMAIN items' : Seen(r)'[i] = items'[i]
      BY <1>1, SeenAfter
    <3> QED BY <1>9, <3>1 DEF RowsUnique
  <2>2. ASSUME NEW p \in Requests \ {r} PROVE RowsUnique(Seen(p)')
    <3>1. ASSUME NEW i \in DOMAIN Seen(p)', NEW j \in DOMAIN Seen(p)', i # j,
                 i \in DOMAIN Own(p)
          PROVE  ~SameKey(Seen(p)'[i], Seen(p)'[j])
      <4>1. Seen(p)'[i] = Own(p)[i] /\ Seen(p)[i] = Own(p)[i] /\ i \in DOMAIN Seen(p)
        BY <1>4, <3>1, SeenAfter, SeenRows
      <4>2. CASE j \in DOMAIN Own(p) \/ j \notin DOMAIN Own(r)
        <5>1. j \in DOMAIN Seen(p) /\ Seen(p)'[j] = Seen(p)[j]
          <6>1. Own(p)' = Own(p)
            BY <1>4
          <6>2. /\ j \in DOMAIN items' \cup DOMAIN Own(p)
                /\ Seen(p)'[j] = IF j \in DOMAIN Own(p) THEN Own(p)[j] ELSE items'[j]
            BY <6>1, SeenAfter
          <6>3. /\ DOMAIN Seen(p) = DOMAIN items \cup DOMAIN Own(p)
                /\ j \in DOMAIN Seen(p) =>
                     Seen(p)[j] = IF j \in DOMAIN Own(p) THEN Own(p)[j] ELSE items[j]
            BY SeenRows
          <6> QED BY <1>2, <4>2, <6>2, <6>3
        <5>2. RowsUnique(Seen(p))
          BY DEF KeysInv, KeysUnique
        <5>3. ~SameKey(Seen(p)[i], Seen(p)[j])
          BY <3>1, <4>1, <5>1, <5>2 DEF RowsUnique
        <5> QED BY <4>1, <5>1, <5>3 DEF SameKey
      <4>3. CASE j \notin DOMAIN Own(p) /\ j \in DOMAIN Own(r)
        <5>1. Seen(p)'[j] = Own(r)[j]
          BY <1>2, <1>4, <3>1, <4>3, SeenAfter
        <5>2. ~SameKey(Own(p)[i], Own(r)[j])
          BY <1>3, <3>1, <4>3
        <5> QED BY <4>1, <5>1, <5>2
      <4> QED BY <4>2, <4>3
    <3>2. ASSUME NEW i \in DOMAIN Seen(p)', NEW j \in DOMAIN Seen(p)', i # j,
                 i \notin DOMAIN Own(p), j \notin DOMAIN Own(p)
          PROVE  ~SameKey(Seen(p)'[i], Seen(p)'[j])
      BY <1>4, <1>9, <3>2, SeenAfter DEF RowsUnique
    <3> QED BY <3>1, <3>2 DEF RowsUnique, SameKey
  <2> QED BY <1>1, <2>1, <2>2
<1>11. \A p, q \in Requests : p # q =>
         \A i \in DOMAIN Own(p)', j \in DOMAIN Own(q)' : i # j /\ ~SameKey(Own(p)'[i], Own(q)'[j])
  <2>1. ASSUME NEW p \in Requests \ {r}, NEW q \in Requests \ {r}, p # q,
               NEW i \in DOMAIN Own(p), NEW j \in DOMAIN Own(q)
        PROVE  i # j /\ ~SameKey(Own(p)[i], Own(q)[j])
    BY <2>1 DEF KeysInv, KeysUnique
  <2> QED BY <1>1, <1>4, <2>1
<1>12. KeysUnique'
  BY <1>9, <1>10, <1>11 DEF KeysUnique, RowsUnique, SameKey
<1> QED BY <1>5, <1>6, <1>7, <1>8, <1>12 DEF KeysInv, OnlySlot

\* A commit that takes a row away leaves the keys of the others.
LEMMA KeysRemoved ==
  ASSUME KeysInv, NEW r \in Requests, NEW labels, OnlySlot(r, labels), req'[r] = Idle,
         NEW id, id \in DOMAIN items => Deleting(r) /\ req[r].id = id,
         UNCHANGED created, DOMAIN items' = DOMAIN items \ {id},
         \A i \in DOMAIN items' : items'[i] = items[i]
  PROVE  KeysInv'
<1>1. /\ ~Inserting(r)' /\ ~Reordering(r)' /\ ~Deleting(r)' /\ DOMAIN Own(r)' = {}
  BY IdleKeeps
<1>2. ASSUME NEW p \in Requests \ {r}, Reordering(p)
      PROVE  DOMAIN req[p].own \subseteq DOMAIN items'
  <2>1. DOMAIN req[p].own \subseteq DOMAIN items
    BY <1>2 DEF KeysInv, ReorderFlush
  <2>2. id \in DOMAIN items => id \notin DOMAIN req[p].own
    BY <1>2 DEF KeysInv, Apart
  <2> QED BY <2>1, <2>2
<1>3. ASSUME NEW p \in Requests \ {r}
      PROVE  /\ req'[p] = req[p] /\ Own(p)' = Own(p)
             /\ Inserting(p)' = Inserting(p) /\ Reordering(p)' = Reordering(p)
  BY <1>2, OwnKept DEF OnlySlot
<1>4. \A p \in Requests : Inserting(p)' => req'[p].id \in (1 .. created') \ DOMAIN items'
  BY <1>1, <1>3 DEF KeysInv
<1>5. \A p \in Requests : Reordering(p)' => ReorderFlush(req[p])'
  BY <1>1, <1>2, <1>3 DEF KeysInv, ReorderFlush
<1>6. \A p, q \in Requests : Apart(p, q)'
  <2>1. ASSUME NEW p \in Requests, NEW q \in Requests, Reordering(p)', Deleting(q)'
        PROVE  req'[q].id \notin DOMAIN req'[p].own
    <3>1. p # r /\ q # r /\ Reordering(p) /\ req'[p] = req[p] /\ req'[q] = req[q]
      BY <1>1, <1>3, <2>1
    <3>2. Deleting(q)
      BY <2>1, <3>1 DEF Deleting
    <3> QED BY <3>1, <3>2 DEF KeysInv, Apart
  <2> QED BY <2>1 DEF Apart
<1>7. RowsUnique(items')
  BY DEF KeysInv, KeysUnique, RowsUnique
<1>8. \A p \in Requests : RowsUnique(Seen(p)')
  <2>1. RowsUnique(Seen(r)')
    <3>1. /\ DOMAIN Seen(r)' = DOMAIN items'
          /\ \A i \in DOMAIN items' : Seen(r)'[i] = items'[i]
      BY <1>1, SeenAfter
    <3> QED BY <1>7, <3>1 DEF RowsUnique
  <2>2. ASSUME NEW p \in Requests \ {r} PROVE RowsUnique(Seen(p)')
    <3>1. \A i \in DOMAIN Seen(p)' : i \in DOMAIN Seen(p) /\ Seen(p)'[i] = Seen(p)[i]
      <4>1. Own(p)' = Own(p)
        BY <1>3
      <4>2. /\ DOMAIN Seen(p)' = DOMAIN items' \cup DOMAIN Own(p)
            /\ \A i \in DOMAIN Seen(p)' :
                 Seen(p)'[i] = IF i \in DOMAIN Own(p) THEN Own(p)[i] ELSE items'[i]
        BY <4>1, SeenAfter
      <4>3. /\ DOMAIN Seen(p) = DOMAIN items \cup DOMAIN Own(p)
            /\ \A i \in DOMAIN Seen(p) :
                 Seen(p)[i] = IF i \in DOMAIN Own(p) THEN Own(p)[i] ELSE items[i]
        BY SeenRows
      <4> QED BY <4>2, <4>3
    <3>2. RowsUnique(Seen(p))
      BY DEF KeysInv, KeysUnique
    <3> QED BY <3>1, <3>2 DEF RowsUnique, SameKey
  <2> QED BY <1>1, <2>1, <2>2
<1>9. \A p, q \in Requests : p # q =>
        \A i \in DOMAIN Own(p)', j \in DOMAIN Own(q)' : i # j /\ ~SameKey(Own(p)'[i], Own(q)'[j])
  <2>1. ASSUME NEW p \in Requests \ {r}, NEW q \in Requests \ {r}, p # q,
               NEW i \in DOMAIN Own(p), NEW j \in DOMAIN Own(q)
        PROVE  i # j /\ ~SameKey(Own(p)[i], Own(q)[j])
    BY <2>1 DEF KeysInv, KeysUnique
  <2> QED BY <1>1, <1>3, <2>1
<1>10. KeysUnique'
  BY <1>7, <1>8, <1>9 DEF KeysUnique, RowsUnique, SameKey
<1> QED BY <1>4, <1>5, <1>6, <1>10 DEF KeysInv, OnlySlot

\* The steps of an addition and of a removal, and reading for a reorder.
LEMMA KeysAddRest ==
  ASSUME KeysInv, NEW r \in Requests, AddRest(r)
  PROVE  KeysInv'
<1> DEFINE x == req[r]
<1>1. OnlySlot(r, SetLabels) /\ Slots
  BY SetSlot DEF SetHandler, KeysInv
<1>2. CASE AddLoadQuestion(r) \/ AddLoadItems(r)
  <2>1. /\ ~Inserting(r)' /\ ~Reordering(r)' /\ ~Deleting(r)'
        /\ UNCHANGED <<items, created>>
    BY <1>1, <1>2 DEF AddLoadQuestion, AddLoadItems, Inserting, Reordering, Deleting, db, Continue,
       Return, Slots, Idle
  <2> QED BY <1>1, <2>1, KeysQuiet DEF Apart
<1>3. CASE AddRecalculate(r)
  <2>1. /\ UNCHANGED <<items, created>> /\ x.at = "add.recalculate"
        /\ req'[r].at = "add.save" /\ req'[r].id = x.id /\ req'[r].item = x.item
    BY <1>1, <1>3 DEF AddRecalculate, db, Continue, Slots
  <2>2. /\ Inserting(r) /\ Inserting(r)' /\ ~Reordering(r)' /\ ~Deleting(r)'
    BY <2>1 DEF Inserting, Reordering, Deleting
  <2>3. Own(r)' = Own(r)
    BY <2>1, <2>2 DEF Own
  <2>4. Seen(r)' = Seen(r)
    BY <2>1, <2>3 DEF Seen, Updated
  <2> QED BY <1>1, <2>1, <2>2, <2>3, <2>4, KeysPending DEF KeysInv, KeysUnique, Apart
<1>4. CASE AddSave(r)
  <2>1. /\ x.at = "add.save" /\ req'[r] = Idle /\ UNCHANGED created
        /\ DOMAIN items' = DOMAIN items \cup {x.id}
        /\ \A i \in DOMAIN items' : items'[i] = IF i \in DOMAIN items THEN items[i] ELSE x.item
    BY <1>1, <1>4 DEF AddSave, Return, Slots, WithRow
  <2>2. Inserting(r) /\ x.id \notin DOMAIN items
    BY <2>1 DEF Inserting, KeysInv
  <2>3. DOMAIN Own(r) = {x.id} /\ Own(r)[x.id] = x.item
    BY <2>2, OwnRows
  <2>4. /\ DOMAIN items' = DOMAIN Seen(r)
        /\ \A i \in DOMAIN items' : items'[i] = Seen(r)[i]
    BY <2>1, <2>2, <2>3, SeenRows
  <2> QED BY <1>1, <2>1, <2>4, KeysCommit
<1> QED BY <1>2, <1>3, <1>4, KeysAddInsert DEF AddRest

\* A row that is deleted is not among those that another request has moved.
LEMMA KeysRemoveStep ==
  ASSUME KeysInv, NEW r \in Requests, RemoveStep(r)
  PROVE  KeysInv'
<1> DEFINE x == req[r]
<1>1. OnlySlot(r, SetLabels) /\ Slots
  BY SetSlot DEF SetHandler, KeysInv
<1>2. ASSUME \/ \E id \in ItemIds : RemoveLoadSet(r, id)
             \/ RemoveLoadItem(r)
      PROVE  KeysInv'
  <2>1. /\ ~Inserting(r)' /\ ~Reordering(r)' /\ ~Deleting(r)'
        /\ UNCHANGED <<items, created>>
    BY <1>1, <1>2 DEF RemoveLoadSet, RemoveLoadItem, Inserting, Reordering, Deleting, db, Begin,
       Continue, Return, Slots, Idle
  <2> QED BY <1>1, <2>1, KeysQuiet DEF Apart
<1>3. CASE RemoveDelete(r) \/ RemoveRecalculate(r)
  <2>1. /\ UNCHANGED <<items, created>>
        /\ req'[r].at \in {"remove.recalculate", "remove.save"} /\ req'[r].id = x.id
    BY <1>1, <1>3 DEF RemoveDelete, RemoveRecalculate, db, Continue, Slots
  <2>2. ~Inserting(r)' /\ ~Reordering(r)'
    BY <2>1 DEF Inserting, Reordering
  <2>3. ASSUME NEW p \in Requests, Reordering(p)', Deleting(r)'
        PROVE  req'[r].id \notin DOMAIN req'[p].own
    <3>1. p # r /\ req'[p] = req[p] /\ Reordering(p)
      BY <1>1, <2>2, <2>3 DEF OnlySlot, Reordering
    <3>2. x.id \in DOMAIN items
      BY <2>1, <2>3 DEF Deleting
    <3>3. CASE RemoveDelete(r)
      BY <2>1, <3>1, <3>3 DEF RemoveDelete, ItemHeld, HeldRows
    <3>4. CASE RemoveRecalculate(r)
      <4>1. Deleting(r)
        BY <3>2, <3>4 DEF RemoveRecalculate, Deleting
      <4> QED BY <2>1, <3>1, <4>1 DEF KeysInv, Apart
    <3> QED BY <1>3, <3>3, <3>4
  <2> QED BY <1>1, <2>1, <2>2, <2>3, KeysQuiet DEF Apart
<1>4. CASE RemoveSave(r)
  <2>1. /\ x.at = "remove.save" /\ req'[r] = Idle /\ UNCHANGED created
        /\ DOMAIN items' = DOMAIN items \ {x.id}
        /\ \A i \in DOMAIN items' : items'[i] = items[i]
    BY <1>1, <1>4 DEF RemoveSave, Return, Slots, Without, Restrict
  <2>2. x.id \in DOMAIN items => Deleting(r)
    BY <2>1 DEF Deleting
  <2> QED BY <1>1, <2>1, <2>2, KeysRemoved
<1> QED BY <1>2, <1>3, <1>4 DEF RemoveStep

\* A reorder writes nothing until it has read all its items, and nobody sees what it
\* has written until it commits.
LEMMA KeysReorderStep ==
  ASSUME KeysInv, NEW r \in Requests, ReorderStep(r)
  PROVE  KeysInv'
<1> DEFINE x == req[r]
<1>1. OnlySlot(r, SetLabels) /\ Slots
  BY SetSlot DEF SetHandler, KeysInv
<1>2. ASSUME UNCHANGED <<items, created>>, Reordering(r),
             Reordering(r)' => /\ ReorderFlush(req'[r]) /\ req'[r].own = x.own
                               /\ req'[r].keys = x.keys,
             ~Inserting(r)', ~Deleting(r)'
      PROVE  KeysInv'
  <2>1. CASE ~Reordering(r)'
    BY <1>1, <1>2, <2>1, KeysQuiet DEF Apart
  <2>2. CASE Reordering(r)'
    <3>1. ~Inserting(r) /\ ReorderFlush(req[r])' /\ req'[r].own = x.own
      BY <1>2, <2>2 DEF Inserting, Reordering, ReorderFlush
    <3>2. Own(r)' = Own(r)
      BY <1>2, <2>2, <3>1 DEF Own
    <3>3. Seen(r)' = Seen(r)
      BY <1>2, <3>2 DEF Seen, Updated
    <3>4. \A p \in Requests : Apart(r, p)' /\ Apart(p, r)'
      <4>1. ASSUME NEW p \in Requests, Deleting(p)' PROVE req'[p].id \notin DOMAIN req'[r].own
        <5>1. p # r /\ req'[p] = req[p] /\ Deleting(p)
          BY <1>1, <1>2, <4>1 DEF OnlySlot, Deleting
        <5> QED BY <1>2, <3>1, <5>1 DEF KeysInv, Apart
      <4> QED BY <1>2, <4>1 DEF Apart
    <3> QED BY <1>1, <1>2, <3>1, <3>2, <3>3, <3>4, KeysPending DEF KeysInv, KeysUnique
  <2> QED BY <2>1, <2>2
<1>3. ASSUME NEW ids, NEW places, ReorderLoad(r, ids, places) PROVE KeysInv'
  <2>1. /\ ~Inserting(r)' /\ ~Reordering(r)' /\ ~Deleting(r)'
        /\ UNCHANGED <<items, created>>
    BY <1>1, <1>3 DEF ReorderLoad, Inserting, Reordering, Deleting, db, Begin, Slots
  <2> QED BY <1>1, <2>1, KeysQuiet DEF Apart
<1>4. CASE ReorderLoadItem(r)
  <2> DEFINE loaded == Append(x.loaded, items[x.ids[Len(x.loaded) + 1]].order)
             done == [at |-> "reorder.aside", ids |-> x.ids, places |-> x.places,
                      loaded |-> loaded, todo |-> Differing(loaded, AsideOf(x.ids)),
                      own |-> << >>, keys |-> {}]
  <2>1. /\ x.at = "reorder.load" /\ UNCHANGED <<items, created>>
        /\ req'[r] \in {Idle, done} \/ req'[r].at = "reorder.load"
    <3>1. x.at = "reorder.load" /\ "at" \in DOMAIN x /\ UNCHANGED <<items, created>>
      BY <1>1, <1>4 DEF ReorderLoadItem, Slots, db
    <3>2. Return(r) \/ Continue(r, [x EXCEPT !.loaded = loaded]) \/ Continue(r, done)
      BY <1>4 DEF ReorderLoadItem
    <3> HIDE DEF loaded, done
    <3> QED BY <1>1, <3>1, <3>2 DEF Return, Continue, Slots
  <2>2. /\ done.at = "reorder.aside" /\ done.own = << >> /\ done.keys = {}
        /\ done = [at |-> done.at, ids |-> done.ids, places |-> done.places,
                   loaded |-> done.loaded, todo |-> done.todo, own |-> done.own,
                   keys |-> done.keys]
    OBVIOUS
  <2> HIDE DEF done
  <2>3. ~Inserting(r)' /\ ~Deleting(r)'
    BY <2>1, <2>2 DEF Inserting, Deleting, Idle
  <2>4. Reordering(r)' => req'[r] = done
    BY <2>1, <2>2 DEF Reordering, Idle
  <2>5. Reordering(r)' => ReorderFlush(req[r])' /\ DOMAIN req'[r].own = {}
    <3>1. DOMAIN << >> = {}
      OBVIOUS
    <3> QED BY <2>2, <2>4, <3>1 DEF ReorderFlush
  <2> QED BY <1>1, <2>1, <2>3, <2>5, KeysQuiet DEF Apart
<1>5. CASE ReorderPlace(r)
  <2>1. /\ Reordering(r) /\ UNCHANGED <<items, created>>
        /\ req'[r] = [x EXCEPT !.at = "reorder.place",
                               !.todo = Differing(AsideOf(x.ids), x.places)]
    BY <1>1, <1>5 DEF ReorderPlace, Reordering, Continue, Slots, db
  <2>2. ReorderFlush(x)
    BY <2>1 DEF KeysInv
  <2>3. /\ req'[r].at = "reorder.place" /\ ReorderFlush(req'[r])
        /\ req'[r].own = x.own /\ req'[r].keys = x.keys
    BY <2>1, <2>2 DEF ReorderFlush
  <2>4. ~Inserting(r)' /\ ~Deleting(r)'
    BY <2>3 DEF Inserting, Deleting
  <2> QED BY <1>2, <2>1, <2>3, <2>4
<1>6. CASE ReorderGone(r)
  <2>1. /\ Reordering(r) /\ UNCHANGED <<items, created>>
        /\ req'[r] = Idle \/ \E k : req'[r] = [x EXCEPT !.todo = @ \ {k}]
    BY <1>1, <1>6 DEF ReorderGone, Continue, Return, Slots, db
  <2>2. ReorderFlush(x)
    BY <2>1 DEF KeysInv
  <2>3. CASE req'[r] = Idle
    BY <1>2, <2>1, <2>3 DEF Idle, Inserting, Deleting, Reordering
  <2>4. ASSUME NEW k, req'[r] = [x EXCEPT !.todo = @ \ {k}] PROVE KeysInv'
    <3>1. /\ req'[r].at = x.at /\ ReorderFlush(req'[r])
          /\ req'[r].own = x.own /\ req'[r].keys = x.keys
      BY <2>2, <2>4 DEF ReorderFlush
    <3>2. ~Inserting(r)' /\ ~Deleting(r)'
      BY <2>1, <3>1 DEF Inserting, Deleting, Reordering
    <3> QED BY <1>2, <2>1, <3>1, <3>2
  <2> QED BY <2>1, <2>3, <2>4
<1>7. CASE ReorderAbort(r)
  BY <1>1, <1>2, <1>7 DEF ReorderAbort, Return, Slots, db, Idle, Inserting, Deleting, Reordering
<1>8. CASE ReorderSave(r)
  <2>1. req'[r] = Idle /\ UNCHANGED created /\ items' = Seen(r)
    BY <1>1, <1>8 DEF ReorderSave, Return, Slots
  <2> QED BY <1>1, <2>1, KeysCommit
<1> QED
  BY <1>3, <1>4, <1>5, <1>6, <1>7, <1>8, KeysReorderWrite DEF ReorderStep

\* So does every step of the sets.
LEMMA KeysSetStep ==
  ASSUME KeysInv, NEW r \in Requests, SetHandler(r)
  PROVE  KeysInv'
<1>1. OnlySlot(r, SetLabels) /\ Slots
  BY SetSlot DEF KeysInv
<1>2. ASSUME \/ \E q \in Questions, order \in Orders \cup {Null}, override \in Marks \cup {Null} :
                  AddLoadSet(r, q, order, override)
             \/ QuestionStep(r) \/ PaperStep(r)
      PROVE  KeysInv'
  <2>1. ~Inserting(r)' /\ ~Reordering(r)' /\ ~Deleting(r)' /\ UNCHANGED <<items, created>>
    BY <1>1, <1>2 DEF AddLoadSet, QuestionStep, UpdateLoad, UpdateSave, PaperStep, PaperLoadSet,
       PaperLoadItems, PaperLoadQuestions, PaperSave, Inserting, Reordering, Deleting, db, Begin,
       Continue, Return, Slots, Idle
  <2> QED BY <1>1, <2>1, KeysQuiet DEF Apart
<1> QED
  BY <1>2, KeysAddRest, KeysRemoveStep, KeysReorderStep DEF SetHandler

\* Every step keeps them.
LEMMA KeysStep ==
  ASSUME KeysInv, [AuthoringNext]_authoringVars
  PROVE  KeysInv'
<1>1. ASSUME NEW r \in Requests, SetStep(r) PROVE KeysInv'
  BY <1>1, SetHandlers, KeysSetStep
<1>2. ASSUME NEW r \in Requests, OnlySlot(r, LibraryLabels) \/ OnlySlot(r, {"window.save"}),
             UNCHANGED db
      PROVE  KeysInv'
  <2>1. /\ ~Inserting(r)' /\ ~Reordering(r)' /\ ~Deleting(r)'
        /\ UNCHANGED <<items, created>>
    BY <1>2 DEF OnlySlot, LibraryLabels, Inserting, Reordering, Deleting, db
  <2> QED BY <1>2, <2>1, KeysQuiet DEF Apart
<1>3. CASE UNCHANGED authoringVars
  <2>1. UNCHANGED <<items, created, req>>
    BY <1>3 DEF authoringVars, db
  <2>2. \A p : /\ Inserting(p)' = Inserting(p) /\ Reordering(p)' = Reordering(p)
               /\ Deleting(p)' = Deleting(p) /\ ReorderFlush(req[p])' = ReorderFlush(req[p])
    BY <2>1 DEF Inserting, Reordering, Deleting, ReorderFlush
  <2>3. \A p, q : Own(p)' = Own(p) /\ Seen(p)' = Seen(p) /\ Apart(p, q)' = Apart(p, q)
    BY <2>1, <2>2 DEF Own, Seen, Updated, Apart
  <2>4. KeysUnique'
    BY <2>1, <2>3 DEF KeysInv, KeysUnique, RowsUnique
  <2> QED BY <2>1, <2>2, <2>3, <2>4 DEF KeysInv, Slots
<1> QED
  BY <1>1, <1>2, <1>3, LibrarySlot, WindowSlot DEF AuthoringNext, KeysInv

\* A question is in the set once and a position is taken once, with any number of
\* requests in flight: among the rows that are committed, among those that a request
\* sees between the two flushes of a reorder, and among those that two requests have
\* written and not committed.
THEOREM KeysUniqueCorrect == AuthoringSpec => []KeysUnique
<1>1. KeysInv => KeysUnique
  BY DEF KeysInv
<1> QED BY <1>1, KeysInit, KeysStep, PTL DEF AuthoringSpec

-----------------------------------------------------------------------------
(* The library: types, and the slugs of topics.                                *)

\* What an edit, and an approval, carry.
EditRow(x) == x.id \in DOMAIN bank /\ x.row \in QuestionRow /\ x.new \in QuestionRow

Approval(x) == x.job \in DOMAIN jobs /\ x.indexes \in Seq(Nat \ {0}) /\ x.indexes # << >>

\* What a request in flight carries.
LibraryCarries(x) ==
  /\ x.at = "edit.save" => /\ EditRow(x) /\ x.new.job = x.row.job
                           /\ x.new.topic \in Range(topics)
  /\ x.at \in {"approve.topic", "approve.insert", "approve.save"} =>
       Approval(x) /\ x.status \in QuestionStatus
  /\ x.at = "approve.save" => /\ x.topic \in Slugs /\ x.created \in BOOLEAN
                              /\ IF x.created THEN x.topic = jobs[x.job].topic
                                 ELSE x.topic \in Range(topics)

\* What all requests carry.
LibraryCarried == \A r \in Requests : LibraryCarries(req[r])

\* The inductive invariant of the bank's types.
LibraryInv ==
  Slots /\ BankTypeOK /\ bank \in Seq(QuestionRow) /\ Len(jobs) <= MaxJobs /\ LibraryCarried

USE DEF QuestionTopic

\* The bank begins empty.
LEMMA LibraryInit == AuthoringInit => LibraryInv
<1>1. MaxJobs \in Nat
  BY BankAssumption
<1> QED
  BY <1>1 DEF AuthoringInit, Init, BankInit, InitRequests, Idle, Unused, LibraryInv, Slots,
     BankTypeOK, LibraryCarried, LibraryCarries

\* A new topic leaves the others where they are.
LEMMA AppendRange ==
  ASSUME NEW S, NEW s \in Seq(S), NEW e \in S
  PROVE  Append(s, e) \in Seq(S) /\ Range(Append(s, e)) = Range(s) \cup {e}
<1> DEFINE t == Append(s, e)
<1>1. /\ t \in Seq(S) /\ DOMAIN t = DOMAIN s \cup {Len(s) + 1}
      /\ t[Len(s) + 1] = e /\ \A i \in DOMAIN s : t[i] = s[i]
  BY RowAppended
<1> HIDE DEF t
<1>2. {t[i] : i \in DOMAIN t} = {s[i] : i \in DOMAIN s} \cup {e}
  BY <1>1
<1> QED BY <1>1, <1>2 DEF Range, t

\* What the columns of an edited question are.
LEMMA EditedType ==
  ASSUME NEW row \in QuestionRow, NEW edit \in Edits
  PROVE  /\ Edited(row, edit) \in QuestionRow /\ Edited(row, edit).job = row.job
         /\ Edited(row, edit).topic \in {row.topic, edit.topic}
         /\ edit.topic = Null => Edited(row, edit).topic = row.topic
<1>1. edit \in Columns(Slugs \cup {Null}, QuestionType \cup {Null}, QuestionOption \cup {Null},
                       Nat \cup {Null}, QuestionStatus \cup {Null}, {Null})
  BY BankAssumption
<1> QED BY <1>1 DEF Edited, QuestionRow, Columns

\* A flushed question has its type, and its topic and job are its own or the
\* new row's.
LEMMA WrittenType ==
  ASSUME NEW now \in QuestionRow, NEW row \in QuestionRow, NEW new \in QuestionRow
  PROVE  /\ Written(now, row, new) \in QuestionRow
         /\ Written(now, row, new).topic \in {now.topic, new.topic}
         /\ new.job = row.job => Written(now, row, new).job = now.job
BY DEF Written, Flushed, QuestionRow, Columns

\* Rows are added, and a job keeps its topic.
LibraryGrows ==
  /\ Range(topics) \subseteq Range(topics)' /\ DOMAIN bank \subseteq DOMAIN bank'
  /\ DOMAIN jobs \subseteq DOMAIN jobs' /\ \A j \in DOMAIN jobs : jobs'[j].topic = jobs[j].topic

\* What the other requests carry stays valid: rows are added and never taken
\* away.
LEMMA CarriedStep ==
  ASSUME LibraryInv, LibraryGrows, NEW r \in Requests, NEW labels, OnlySlot(r, labels),
         LibraryCarries(req[r])'
  PROVE  Slots' /\ LibraryCarried'
<1>1. \A p \in Requests \ {r} : LibraryCarries(req[p])'
  BY DEF OnlySlot, LibraryGrows, LibraryInv, LibraryCarried, LibraryCarries, EditRow, Approval
<1> QED BY <1>1 DEF OnlySlot, LibraryCarried

\* A step that writes nothing keeps the invariant.
LEMMA LibraryQuiet ==
  ASSUME LibraryInv, NEW r \in Requests, NEW labels, OnlySlot(r, labels), UNCHANGED library,
         LibraryCarries(req[r])'
  PROVE  LibraryInv'
<1>1. LibraryGrows
  BY DEF LibraryGrows, library
<1> QED BY <1>1, CarriedStep DEF LibraryInv, BankTypeOK, library

\* The question made from a candidate.
LEMMA CandidateType ==
  ASSUME LibraryInv, NEW x, Approval(x), x.status \in QuestionStatus, x.topic \in Slugs
  PROVE  /\ FromCandidate(x) \in QuestionRow /\ FromCandidate(x).topic = x.topic
         /\ FromCandidate(x).job = x.job
<1>1. jobs[x.job] \in AIQuestionGenerationJob /\ x.job \in 0 .. MaxJobs
  BY BankAssumption DEF Approval, LibraryInv, BankTypeOK
<1>2. jobs[x.job].type \in QuestionType
  BY <1>1 DEF AIQuestionGenerationJob
<1>3. GeneratedOptions[jobs[x.job].type] \in QuestionOption
  <2>1. \A type \in QuestionType : GeneratedOptions[type] \in QuestionOption
    BY DEF GeneratedOptions, OptionsOf, QuestionOption, QuestionType
  <2> QED BY <1>2, <2>1
<1> QED BY <1>1, <1>2, <1>3 DEF FromCandidate, QuestionRow, Columns

\* An approval adds one row or more, all of them made from its job.
LEMMA ApprovedRows ==
  ASSUME LibraryInv, NEW r \in Requests, ApproveSave(r)
  PROVE  LET x == req[r] IN
         /\ bank' \in Seq(QuestionRow)
         /\ DOMAIN bank \subseteq DOMAIN bank' /\ \A i \in DOMAIN bank : bank'[i] = bank[i]
         /\ \A i \in DOMAIN bank' \ DOMAIN bank : bank'[i] = FromCandidate(x)
         /\ DOMAIN bank' \ DOMAIN bank # {}
<1> DEFINE x == req[r]  made == [k \in DOMAIN x.indexes |-> FromCandidate(x)]
<1>1. FromCandidate(x) \in QuestionRow /\ Approval(x)
  BY CandidateType DEF ApproveSave, LibraryInv, LibraryCarried, LibraryCarries
<1>2. Len(x.indexes) \in Nat \ {0} /\ DOMAIN x.indexes = 1 .. Len(x.indexes)
  BY <1>1 DEF Approval
<1>3. made \in [1 .. Len(x.indexes) -> QuestionRow]
  BY <1>1, <1>2
<1>4. /\ made \in Seq(QuestionRow) /\ Len(made) \in Nat \ {0}
      /\ \A k \in 1 .. Len(made) : made[k] = FromCandidate(x)
  BY <1>2, <1>3
<1>5. bank' = bank \o made /\ bank \in Seq(QuestionRow)
  BY DEF ApproveSave, LibraryInv
<1> HIDE DEF made
<1>6. /\ bank' \in Seq(QuestionRow) /\ Len(bank') = Len(bank) + Len(made)
      /\ \A i \in 1 .. Len(bank) : bank'[i] = bank[i]
      /\ \A i \in Len(bank) + 1 .. Len(bank') : bank'[i] = made[i - Len(bank)]
  BY <1>4, <1>5
<1>7. \A i \in Len(bank) + 1 .. Len(bank') : i - Len(bank) \in 1 .. Len(made)
  BY <1>4, <1>5, <1>6
<1>8. /\ DOMAIN bank = 1 .. Len(bank) /\ DOMAIN bank' = 1 .. Len(bank')
      /\ Len(bank) + 1 \in DOMAIN bank' \ DOMAIN bank
      /\ \A i \in DOMAIN bank' \ DOMAIN bank : i \in Len(bank) + 1 .. Len(bank')
  BY <1>4, <1>5, <1>6
<1> QED BY <1>4, <1>6, <1>7, <1>8

\* Every handler of the bank keeps the invariant.
LEMMA BankStepType ==
  ASSUME LibraryInv, NEW r \in Requests, BankStep(r)
  PROVE  LibraryInv'
<1> USE DEF LibraryInv, BankTypeOK, Begin, Return, Idle
<1>0. OnlySlot(r, LibraryLabels)
  BY LibraryHandlerSlot
<1>1. ASSUME NEW slug \in Slugs, CreateTopic(r, slug) PROVE LibraryInv'
  <2>1. topics' \in Seq(Slugs) /\ Range(topics) \subseteq Range(topics)'
    BY <1>1, AppendRange DEF CreateTopic
  <2>2. LibraryGrows /\ LibraryCarries(req[r])'
    BY <1>1, <2>1 DEF CreateTopic, LibraryGrows, LibraryCarries
  <2> QED BY <1>0, <1>1, <2>1, <2>2, CarriedStep DEF CreateTopic
<1>2. ASSUME NEW row \in Drafts, CreateQuestion(r, row) PROVE LibraryInv'
  <2>1. row \in QuestionRow /\ row.topic \in Range(topics)
    BY <1>2, BankAssumption DEF CreateQuestion, QuestionRow, Columns
  <2>2. bank' \in Seq(QuestionRow) /\ \A i \in DOMAIN bank' : bank'[i].topic \in Range(topics)
    BY <1>2, <2>1 DEF CreateQuestion
  <2>3. LibraryGrows /\ LibraryCarries(req[r])'
    BY <1>2 DEF CreateQuestion, LibraryGrows, LibraryCarries
  <2> QED BY <1>0, <1>2, <2>2, <2>3, CarriedStep DEF CreateQuestion
<1>3. ASSUME NEW i \in DOMAIN bank, NEW edit \in Edits, EditLoad(r, i, edit)
      PROVE  LibraryInv'
  <2>1. LibraryCarries(req[r])'
    BY <1>3, EditedType DEF EditLoad, LibraryCarries, EditRow, Slots, library
  <2> QED BY <1>0, <1>3, <2>1, LibraryQuiet DEF EditLoad
<1>4. CASE EditSave(r)
  <2> DEFINE x == req[r]
  <2>1. EditRow(x) /\ x.new.topic \in Range(topics)
    BY <1>4 DEF EditSave, LibraryCarried, LibraryCarries
  <2> DEFINE saved == Written(bank[x.id], x.row, x.new)
  <2>2. saved \in QuestionRow /\ saved.topic \in Range(topics)
    <3>1. bank[x.id] \in QuestionRow /\ bank[x.id].topic \in Range(topics)
      BY <2>1 DEF EditRow
    <3> QED BY <2>1, <3>1, WrittenType DEF EditRow
  <2>3. bank' = [bank EXCEPT ![x.id] = saved] /\ UNCHANGED <<topics, jobs>>
    BY <1>4 DEF EditSave
  <2> HIDE DEF saved
  <2>4. /\ bank' \in Seq(QuestionRow) /\ DOMAIN bank' = DOMAIN bank
        /\ \A i \in DOMAIN bank' : bank'[i].topic \in Range(topics)
    BY <2>1, <2>2, <2>3 DEF EditRow
  <2>5. LibraryGrows /\ LibraryCarries(req[r])'
    BY <1>4, <2>3, <2>4 DEF EditSave, LibraryGrows, LibraryCarries, Slots
  <2> QED BY <1>0, <2>3, <2>4, <2>5, CarriedStep
<1> QED BY <1>1, <1>2, <1>3, <1>4 DEF BankStep

\* So does every handler of jobs.
LEMMA JobStepType ==
  ASSUME LibraryInv, NEW r \in Requests, JobStep(r)
  PROVE  LibraryInv'
<1> USE DEF LibraryInv, BankTypeOK, Begin, Continue, Return, Idle
<1> DEFINE x == req[r]
<1>0. OnlySlot(r, LibraryLabels)
  BY LibraryHandlerSlot
<1>1. ASSUME NEW slug \in Slugs, CreateTopic(r, slug) PROVE LibraryInv'
  BY <1>1, BankStepType DEF BankStep
<1>2. ASSUME NEW asked \in JobRequests, CreateJob(r, asked) PROVE LibraryInv'
  <2>1. jobs' \in Seq(AIQuestionGenerationJob) /\ Len(jobs') <= MaxJobs
    <3>1. asked \in [topic : Slugs, type : QuestionType, count : Nat \ {0}] /\ MaxJobs \in Nat
      BY BankAssumption
    <3> DEFINE job == [topic |-> asked.topic, type |-> asked.type, count |-> asked.count,
                       status |-> "completed"]
    <3>2. job \in AIQuestionGenerationJob
      BY <3>1 DEF AIQuestionGenerationJob
    <3>3. jobs' = Append(jobs, job) /\ Len(jobs) < MaxJobs
      BY <1>2 DEF CreateJob
    <3> HIDE DEF job
    <3> QED BY <3>1, <3>2, <3>3
  <2>2. LibraryGrows /\ LibraryCarries(req[r])'
    BY <1>2 DEF CreateJob, LibraryGrows, LibraryCarries
  <2> QED BY <1>0, <1>2, <2>1, <2>2, CarriedStep DEF CreateJob
<1>3. ASSUME NEW j \in DOMAIN jobs, NEW indexes \in Selections \cup {<< >>},
             NEW status \in QuestionStatus, ApproveLoad(r, j, indexes, status)
      PROVE  LibraryInv'
  <2>1. /\ Selected(jobs[j], indexes) \in Seq(Nat \ {0})
        /\ Selected(jobs[j], indexes) # << >>
    <3>1. CASE indexes = << >>
      <4>1. jobs[j] \in AIQuestionGenerationJob
        OBVIOUS
      <4>2. jobs[j].count \in Nat \ {0}
        BY <4>1 DEF AIQuestionGenerationJob
      <4>3. Selected(jobs[j], indexes) = [k \in 1 .. jobs[j].count |-> k]
        BY <3>1 DEF Selected
      <4> HIDE DEF LibraryInv, BankTypeOK
      <4> QED BY <4>2, <4>3
    <3>2. CASE indexes # << >>
      BY <1>3, <3>2, BankAssumption DEF Selected
    <3> QED BY <3>1, <3>2
  <2>2. LibraryCarries(req[r])'
    BY <1>3, <2>1 DEF ApproveLoad, LibraryCarries, Approval, Slots, library, QuestionStatus
  <2> QED BY <1>0, <1>3, <2>2, LibraryQuiet DEF ApproveLoad
<1>4. CASE ApproveTopic(r) \/ ApproveInsert(r)
  <2>1. Approval(x) /\ x.status \in QuestionStatus
    BY <1>4 DEF ApproveTopic, ApproveInsert, LibraryCarried, LibraryCarries
  <2>2. jobs[x.job].topic \in Slugs
    <3>1. jobs[x.job] \in AIQuestionGenerationJob
      BY <2>1 DEF Approval
    <3> QED BY <3>1 DEF AIQuestionGenerationJob
  <2>3. UNCHANGED library
    BY <1>4 DEF ApproveTopic, ApproveInsert
  <2>4. Range(topics) \subseteq Slugs
    BY DEF Range
  <2> HIDE DEF LibraryInv, BankTypeOK
  <2>5. ASSUME ApproveTopic(r) PROVE LibraryCarries(req[r])'
    <3>1. CASE req'[r] = [x EXCEPT !.at = "approve.insert"] /\ "at" \in DOMAIN x
      BY <2>1, <2>3, <3>1 DEF LibraryCarries, Approval, library
    <3>2. ASSUME NEW topic \in Range(topics),
                 req'[r] = [at |-> "approve.save", job |-> x.job, indexes |-> x.indexes,
                            status |-> x.status, topic |-> topic, created |-> FALSE]
          PROVE  LibraryCarries(req[r])'
      BY <2>1, <2>3, <2>4, <3>2 DEF LibraryCarries, Approval, library
    <3> QED BY <2>5, <3>1, <3>2 DEF ApproveTopic, LibraryInv, Slots
  <2>6. ASSUME ApproveInsert(r) PROVE LibraryCarries(req[r])'
    <3>1. CASE req'[r] = [at |-> "approve.save", job |-> x.job, indexes |-> x.indexes,
                          status |-> x.status, topic |-> jobs[x.job].topic, created |-> TRUE]
      BY <2>1, <2>2, <2>3, <3>1 DEF LibraryCarries, Approval, library
    <3>2. CASE req'[r] = Idle
      BY <3>2 DEF LibraryCarries
    <3> QED BY <2>6, <3>1, <3>2 DEF ApproveInsert, LibraryInv, Slots
  <2> QED BY <1>0, <1>4, <2>3, <2>5, <2>6, LibraryQuiet
<1>5. CASE ApproveSave(r)
  <2>1. /\ Approval(x) /\ x.status \in QuestionStatus /\ x.topic \in Slugs
        /\ x.topic \in Range(topics) \/ x.created
    BY <1>5 DEF ApproveSave, LibraryCarried, LibraryCarries
  <2>2. /\ topics' \in Seq(Slugs) /\ Range(topics) \subseteq Range(topics)'
        /\ x.topic \in Range(topics)'
    BY <1>5, <2>1, AppendRange DEF ApproveSave
  <2> DEFINE approved == [jobs[x.job] EXCEPT !.status = "approved"]
  <2>0. jobs[x.job] \in AIQuestionGenerationJob
    BY <2>1 DEF Approval
  <2>3. /\ jobs' \in Seq(AIQuestionGenerationJob) /\ Len(jobs') = Len(jobs)
        /\ \A j \in DOMAIN jobs : jobs'[j].topic = jobs[j].topic
    <3>1. approved \in AIQuestionGenerationJob /\ approved.topic = jobs[x.job].topic
      BY <2>0 DEF AIQuestionGenerationJob
    <3>2. jobs' = [jobs EXCEPT ![x.job] = approved]
      BY <1>5 DEF ApproveSave
    <3> HIDE DEF approved
    <3> QED BY <2>1, <3>1, <3>2 DEF Approval
  <2>4. FromCandidate(x) \in QuestionRow /\ FromCandidate(x).topic = x.topic
    BY <2>1, CandidateType
  <2>5. /\ bank' \in Seq(QuestionRow) /\ DOMAIN bank \subseteq DOMAIN bank'
        /\ \A i \in DOMAIN bank' : bank'[i].topic \in Range(topics)'
    BY <1>5, <2>1, <2>2, <2>4, ApprovedRows
  <2>6. LibraryGrows /\ LibraryCarries(req[r])'
    BY <1>5, <2>2, <2>3, <2>5 DEF ApproveSave, LibraryGrows, LibraryCarries, Slots
  <2> QED BY <1>0, <1>5, <2>2, <2>3, <2>5, <2>6, CarriedStep
<1> QED BY <1>1, <1>2, <1>3, <1>4, <1>5 DEF JobStep

\* Every step keeps the invariant.
LEMMA LibraryStepType ==
  ASSUME LibraryInv, [AuthoringNext]_authoringVars
  PROVE  LibraryInv'
<1>1. ASSUME NEW r \in Requests, SetStep(r), UNCHANGED library PROVE LibraryInv'
  <2>1. OnlySlot(r, SetLabels)
    BY <1>1, SetHandlers, SetSlot DEF LibraryInv
  <2>2. LibraryCarries(req[r])'
    BY <2>1 DEF OnlySlot, SetLabels, LibraryCarries
  <2> QED BY <1>1, <2>1, <2>2, LibraryQuiet
<1>2. ASSUME NEW r \in Requests, WindowStep(r), UNCHANGED library PROVE LibraryInv'
  <2>1. OnlySlot(r, {"window.save"})
    BY <1>2, WindowSlot DEF LibraryInv
  <2>2. LibraryCarries(req[r])'
    BY <2>1 DEF OnlySlot, LibraryCarries
  <2> QED BY <1>2, <2>1, <2>2, LibraryQuiet
<1>3. CASE UNCHANGED authoringVars
  BY <1>3 DEF authoringVars, library, LibraryInv, Slots, BankTypeOK, LibraryCarried,
              LibraryCarries, EditRow, Approval
<1> QED
  BY <1>1, <1>2, <1>3, BankStepType, JobStepType DEF AuthoringNext, LibraryStep, library

\* The rows of topics, questions and jobs, and the topics that questions refer to.
THEOREM BankTypeCorrect == AuthoringSpec => []BankTypeOK
<1>1. LibraryInv => BankTypeOK
  BY DEF LibraryInv
<1> QED BY <1>1, LibraryInit, LibraryStepType, PTL DEF AuthoringSpec

-----------------------------------------------------------------------------
(* A slug is given to one topic.                                               *)

\* An approval that has inserted its topic and not committed it.
Adding(x) == x.at = "approve.save" /\ x.created

\* No two topics have the same slug, and neither has one that a request is
\* about to insert.
SlugsApart ==
  /\ IsInjective(topics)
  /\ \A r \in Requests : Adding(req[r]) => req[r].topic \notin Range(topics)
  /\ \A r, p \in Requests : Adding(req[r]) /\ Adding(req[p]) /\ req[r].topic = req[p].topic
       => r = p

\* The slugs that are held are the topics that the approvals carry.
LEMMA HeldSlugs ==
  ASSUME LibraryInv, NEW r \in Requests, NEW slug
  PROVE  SlugHeld(r, slug) <=> \E p \in Requests \ {r} : Adding(req[p]) /\ req[p].topic = slug
BY DEF SlugHeld, LibraryInv, LibraryCarried, LibraryCarries, Adding

\* So slugs are unique.
LEMMA SlugsApartUnique == LibraryInv /\ SlugsApart => SlugsUnique
BY HeldSlugs DEF SlugsUnique, SlugsApart, Adding

\* A step that adds no topic keeps them apart.
LEMMA SlugsQuiet ==
  ASSUME SlugsApart, NEW r \in Requests, NEW labels, OnlySlot(r, labels), UNCHANGED topics,
         ~Adding(req[r])'
  PROVE  SlugsApart'
BY DEF SlugsApart, OnlySlot, Adding

\* A topic is created only under a slug that is free.
LEMMA CreateTopicSlugs ==
  ASSUME LibraryInv, SlugsApart, NEW r \in Requests, NEW slug \in Slugs, CreateTopic(r, slug)
  PROVE  SlugsApart'
<1>1. CASE slug \in Range(topics)
  BY <1>1 DEF CreateTopic, SlugsApart, Adding
<1>2. CASE slug \notin Range(topics)
  <2>1. topics' = Append(topics, slug) /\ topics \in Seq(Slugs) /\ UNCHANGED req
    BY <1>2 DEF CreateTopic, LibraryInv, BankTypeOK
  <2>2. \A p \in Requests : Adding(req[p]) => req[p].topic # slug
    <3>1. ~Adding(req[r])
      BY DEF CreateTopic, Adding, Idle
    <3> QED BY <3>1, HeldSlugs DEF CreateTopic
  <2>3. Range(topics') = Range(topics) \cup {slug}
    BY <2>1, AppendRange
  <2>4. IsInjective(topics')
    BY <1>2, <2>1 DEF IsInjective, SlugsApart, Range
  <2> QED BY <2>1, <2>2, <2>3, <2>4 DEF SlugsApart, Adding
<1> QED BY <1>1, <1>2

\* Every handler keeps the slugs apart.
LEMMA SlugsApartStep ==
  ASSUME LibraryInv, SlugsApart, NEW r \in Requests, BankStep(r) \/ JobStep(r)
  PROVE  SlugsApart'
<1> DEFINE x == req[r]
<1> USE DEF Adding, Begin, Continue, Return, Idle
<1>0. OnlySlot(r, LibraryLabels) /\ Slots
  BY LibraryHandlerSlot DEF LibraryInv
<1>1. ASSUME NEW slug \in Slugs, CreateTopic(r, slug) PROVE SlugsApart'
  BY <1>1, CreateTopicSlugs
<1>2. ASSUME NEW i, NEW edit, EditLoad(r, i, edit) PROVE SlugsApart'
  BY <1>0, <1>2, SlugsQuiet DEF EditLoad, library, Slots
<1>3. CASE EditSave(r)
  BY <1>0, <1>3, SlugsQuiet DEF EditSave, Slots
<1>4. ASSUME NEW row, CreateQuestion(r, row) PROVE SlugsApart'
  BY <1>0, <1>4, SlugsQuiet DEF CreateQuestion
<1>5. ASSUME NEW asked, CreateJob(r, asked) PROVE SlugsApart'
  BY <1>0, <1>5, SlugsQuiet DEF CreateJob
<1>6. ASSUME NEW j, NEW indexes, NEW status, ApproveLoad(r, j, indexes, status)
      PROVE  SlugsApart'
  BY <1>0, <1>6, SlugsQuiet DEF ApproveLoad, library, Slots
<1>7. CASE ApproveTopic(r)
  <2>1. ~Adding(req[r])'
    BY <1>0, <1>7 DEF ApproveTopic, Slots
  <2> QED BY <1>0, <1>7, <2>1, SlugsQuiet DEF ApproveTopic, library
<1>8. CASE ApproveInsert(r)
  <2> DEFINE slug == jobs[x.job].topic
  <2>1. CASE slug \in Range(topics)
    BY <1>0, <1>8, <2>1, SlugsQuiet DEF ApproveInsert, library, Slots
  <2>2. CASE slug \notin Range(topics)
    <3>1. UNCHANGED topics /\ req'[r].topic = slug
      BY <1>0, <1>8, <2>2 DEF ApproveInsert, library, Slots
    <3>2. \A p \in Requests \ {r} : Adding(req[p]) => req[p].topic # slug
      BY <1>8, HeldSlugs DEF ApproveInsert
    <3> QED BY <1>0, <2>2, <3>1, <3>2 DEF SlugsApart, OnlySlot
  <2> QED BY <2>1, <2>2
<1>9. CASE ApproveSave(r)
  <2>1. req'[r] = Idle
    BY <1>0, <1>9 DEF ApproveSave, Slots
  <2>2. CASE x.created
    <3>1. topics' = Append(topics, x.topic) /\ topics \in Seq(Slugs) /\ x.topic \in Slugs
      BY <1>9, <2>2 DEF ApproveSave, LibraryInv, BankTypeOK, LibraryCarried, LibraryCarries
    <3>2. /\ x.topic \notin Range(topics)
          /\ \A p \in Requests \ {r} : Adding(req[p]) => req[p].topic # x.topic
      BY <1>9, <2>2 DEF ApproveSave, SlugsApart
    <3>3. Range(topics') = Range(topics) \cup {x.topic}
      BY <3>1, AppendRange
    <3>4. IsInjective(topics')
      BY <3>1, <3>2 DEF IsInjective, SlugsApart, Range
    <3> QED BY <1>0, <2>1, <3>2, <3>3, <3>4 DEF SlugsApart, OnlySlot
  <2>3. CASE ~x.created
    BY <1>0, <1>9, <2>1, <2>3, SlugsQuiet DEF ApproveSave
  <2> QED BY <2>2, <2>3
<1> QED
  BY <1>1, <1>2, <1>3, <1>4, <1>5, <1>6, <1>7, <1>8, <1>9 DEF BankStep, JobStep

\* Every step keeps the slugs apart.
LEMMA SlugsStep ==
  ASSUME LibraryInv, SlugsApart, [AuthoringNext]_authoringVars
  PROVE  SlugsApart'
<1>1. ASSUME NEW r \in Requests, SetStep(r) \/ WindowStep(r), UNCHANGED library
      PROVE  SlugsApart'
  <2>1. OnlySlot(r, SetLabels) \/ OnlySlot(r, {"window.save"})
    BY <1>1, SetHandlers, SetSlot, WindowSlot DEF LibraryInv
  <2>2. ~Adding(req[r])'
    BY <2>1 DEF OnlySlot, SetLabels, Adding
  <2> QED BY <1>1, <2>1, <2>2, SlugsQuiet DEF library
<1>2. CASE UNCHANGED authoringVars
  BY <1>2 DEF authoringVars, library, SlugsApart, Adding
<1> QED BY <1>1, <1>2, SlugsApartStep DEF AuthoringNext, LibraryStep, library

\* No two topics have a slug in common, and none has one that an approval has
\* inserted, with any number of requests in flight.
THEOREM SlugsUniqueCorrect == AuthoringSpec => []SlugsUnique
<1>1. AuthoringInit => SlugsApart
  BY DEF AuthoringInit, Init, BankInit, InitRequests, Idle, Unused, SlugsApart, Adding, IsInjective
<1> QED
  BY <1>1, LibraryInit, LibraryStepType, SlugsStep, SlugsApartUnique, PTL DEF AuthoringSpec

\* The invariant that the run checks: keys of the set's items and of topics.
THEOREM AuthoringUniqueCorrect == AuthoringSpec => []AuthoringUnique
BY KeysUniqueCorrect, SlugsUniqueCorrect, PTL DEF AuthoringUnique

-----------------------------------------------------------------------------
(* Questions that fit their type, one request at a time.                       *)

\* What the update in flight has loaded is what the row is, and what it writes is
\* well formed.
BankSound ==
  OneAtATime =>
    /\ \A i \in DOMAIN bank : WellFormed(bank[i])
    /\ \A r \in Requests : req[r].at = "edit.save"
         => req[r].row = bank[req[r].id] /\ WellFormed(req[r].new)

\* Questions that are not edited stay well formed.
LEMMA BankSoundQuiet ==
  ASSUME LibraryInv, BankSound, NEW r \in Requests, NEW labels, OnlySlot(r, labels),
         "unused" \notin labels,
         DOMAIN bank \subseteq DOMAIN bank', \A i \in DOMAIN bank : bank'[i] = bank[i],
         \A i \in DOMAIN bank' \ DOMAIN bank : WellFormed(bank'[i]),
         req[r].at # "edit.save", req'[r].at # "edit.save"
  PROVE  BankSound'
BY OneSlot DEF BankSound, Unused

\* A question made from a candidate is well formed.
LEMMA FromCandidateWellFormed ==
  ASSUME LibraryInv, NEW x, Approval(x)
  PROVE  WellFormed(FromCandidate(x))
<1>1. jobs[x.job] \in AIQuestionGenerationJob
  BY DEF Approval, LibraryInv, BankTypeOK
<1>2. jobs[x.job].type \in QuestionType
  BY <1>1 DEF AIQuestionGenerationJob
<1> QED
  BY <1>2 DEF WellFormed, FromCandidate, GeneratedOptions, OptionsOf, QuestionType

\* Every handler keeps the questions well formed.
LEMMA BankSoundHandler ==
  ASSUME LibraryInv, BankSound, NEW r \in Requests, BankStep(r) \/ JobStep(r)
  PROVE  BankSound'
<1> DEFINE x == req[r]
<1> USE DEF Begin, Continue, Return, Idle
<1>0. OnlySlot(r, LibraryLabels) /\ "unused" \notin LibraryLabels /\ Slots
  BY LibraryHandlerSlot DEF LibraryInv, LibraryLabels
<1>1. ASSUME NEW slug, CreateTopic(r, slug) PROVE BankSound'
  BY <1>0, <1>1, BankSoundQuiet DEF CreateTopic
<1>2. ASSUME NEW row, CreateQuestion(r, row) PROVE BankSound'
  <2>1. /\ bank' = Append(bank, row) /\ bank \in Seq(QuestionRow)
        /\ req[r].at # "edit.save" /\ req'[r].at # "edit.save" /\ WellFormed(row)
    BY <1>2 DEF CreateQuestion, LibraryInv
  <2>2. /\ DOMAIN bank \subseteq DOMAIN bank' /\ \A i \in DOMAIN bank : bank'[i] = bank[i]
        /\ \A i \in DOMAIN bank' \ DOMAIN bank : bank'[i] = row
    BY <2>1
  <2> QED BY <1>0, <2>1, <2>2, BankSoundQuiet
<1>3. ASSUME NEW i \in DOMAIN bank, NEW edit \in Edits, EditLoad(r, i, edit) PROVE BankSound'
  <2> SUFFICES ASSUME OneAtATime' PROVE BankSound'
    BY DEF BankSound
  <2>1. OneAtATime /\ \A p \in Requests \ {r} : req'[p] = Unused
    BY <1>0, OneSlot
  <2> QED BY <1>0, <1>3, <2>1 DEF EditLoad, BankSound, library, Unused, Slots
<1>4. CASE EditSave(r)
  <2> SUFFICES ASSUME OneAtATime' PROVE BankSound'
    BY DEF BankSound
  <2>1. OneAtATime /\ \A p \in Requests \ {r} : req'[p] = Unused
    BY <1>0, OneSlot
  <2>2. EditRow(x) /\ x.row = bank[x.id] /\ WellFormed(x.new)
    BY <1>4, <2>1 DEF EditSave, LibraryInv, LibraryCarried, LibraryCarries, BankSound
  <2>3. Written(x.row, x.row, x.new) = x.new
    BY <2>2 DEF EditRow, Written, Flushed, QuestionRow, Columns
  <2>4. bank' = [bank EXCEPT ![x.id] = x.new] /\ req'[r] = Idle
    BY <1>0, <1>4, <2>2, <2>3 DEF EditSave, Slots
  <2> QED BY <2>1, <2>2, <2>4 DEF BankSound, EditRow, Unused
<1>5. ASSUME NEW asked, CreateJob(r, asked) PROVE BankSound'
  BY <1>0, <1>5, BankSoundQuiet DEF CreateJob
<1>6. ASSUME NEW j, NEW indexes, NEW status, ApproveLoad(r, j, indexes, status)
      PROVE  BankSound'
  BY <1>0, <1>6, BankSoundQuiet DEF ApproveLoad, library, Slots
<1>7. CASE ApproveTopic(r)
  <2>1. req[r].at # "edit.save" /\ req'[r].at # "edit.save" /\ UNCHANGED bank
    BY <1>0, <1>7 DEF ApproveTopic, Slots, library
  <2> QED BY <1>0, <2>1, BankSoundQuiet
<1>8. CASE ApproveInsert(r)
  <2>1. req[r].at # "edit.save" /\ req'[r].at # "edit.save" /\ UNCHANGED bank
    BY <1>0, <1>8 DEF ApproveInsert, Slots, library
  <2> QED BY <1>0, <2>1, BankSoundQuiet
<1>9. CASE ApproveSave(r)
  <2>1. Approval(x) /\ WellFormed(FromCandidate(x))
    BY <1>9, FromCandidateWellFormed DEF ApproveSave, LibraryInv, LibraryCarried, LibraryCarries
  <2>2. req[r].at # "edit.save" /\ req'[r].at # "edit.save"
    BY <1>0, <1>9 DEF ApproveSave, Slots
  <2> QED BY <1>0, <1>9, <2>1, <2>2, ApprovedRows, BankSoundQuiet
<1> QED
  BY <1>1, <1>2, <1>3, <1>4, <1>5, <1>6, <1>7, <1>8, <1>9 DEF BankStep, JobStep

\* Every step keeps the questions well formed.
LEMMA BankSoundStep ==
  ASSUME LibraryInv, BankSound, [AuthoringNext]_authoringVars
  PROVE  BankSound'
<1>1. ASSUME NEW r \in Requests, SetStep(r) \/ WindowStep(r), UNCHANGED library
      PROVE  BankSound'
  <2>1. OnlySlot(r, SetLabels) \/ OnlySlot(r, {"window.save"})
    BY <1>1, SetHandlers, SetSlot, WindowSlot DEF LibraryInv
  <2>2. "unused" \notin SetLabels /\ req[r].at # "edit.save" /\ req'[r].at # "edit.save"
    BY <2>1 DEF OnlySlot, SetLabels
  <2> QED BY <1>1, <2>1, <2>2, BankSoundQuiet DEF library
<1>2. CASE UNCHANGED authoringVars
  BY <1>2 DEF authoringVars, library, BankSound, OneAtATime
<1> QED BY <1>1, <1>2, BankSoundHandler DEF AuthoringNext, LibraryStep, library

\* A question's options fit its type after any sequence of creations, updates and
\* approvals that follow one another.
THEOREM QuestionsWellFormedCorrect == AuthoringSpec => []QuestionsWellFormed
<1>1. AuthoringInit => BankSound
  BY DEF AuthoringInit, Init, BankInit, InitRequests, Idle, Unused, BankSound
<1>2. BankSound => QuestionsWellFormed
  BY DEF BankSound, QuestionsWellFormed
<1> QED BY <1>1, <1>2, LibraryInit, LibraryStepType, BankSoundStep, PTL DEF AuthoringSpec

-----------------------------------------------------------------------------
(* The questions that were made by a generation job.                           *)

\* A job is approved just when it has questions, and an approval that is alone
\* is of a job that is not.
JobsSound ==
  /\ \A i \in DOMAIN bank : bank[i].job \in 0 .. Len(jobs)
  /\ \A j \in DOMAIN jobs : jobs[j].status = "approved" <=> Made(j) # {}
  /\ OneAtATime => \A r \in Requests :
       req[r].at \in {"approve.topic", "approve.insert", "approve.save"}
         => jobs[req[r].job].status = "completed"

\* The requests that approve.
Approving(x) == x.at \in {"approve.topic", "approve.insert", "approve.save"}

\* A step that makes no question and no job.
LEMMA JobsQuiet ==
  ASSUME LibraryInv, JobsSound, NEW r \in Requests, NEW labels, OnlySlot(r, labels),
         "unused" \notin labels, UNCHANGED jobs,
         DOMAIN bank' = DOMAIN bank, \A i \in DOMAIN bank : bank'[i].job = bank[i].job,
         Approving(req[r])' =>
           \/ Approving(req[r]) /\ req'[r].job = req[r].job
           \/ jobs[req'[r].job].status = "completed"
  PROVE  JobsSound' /\ \A j \in DOMAIN jobs : Made(j)' = Made(j)
<1>1. OneAtATime' => OneAtATime /\ \A p \in Requests \ {r} : req'[p] = Unused
  BY OneSlot
<1>2. \A j \in DOMAIN jobs : Made(j)' = Made(j)
  BY DEF Made
<1> QED BY <1>1, <1>2 DEF JobsSound, Approving, Unused

\* A question that an author creates is of no job.
LEMMA CreateQuestionJobs ==
  ASSUME LibraryInv, JobsSound, NEW r \in Requests, NEW row \in Drafts, CreateQuestion(r, row)
  PROVE  JobsSound' /\ \A j \in DOMAIN jobs : Made(j)' = Made(j)
<1>1. /\ bank' = Append(bank, row) /\ bank \in Seq(QuestionRow) /\ UNCHANGED <<jobs, req>>
      /\ jobs \in Seq(AIQuestionGenerationJob)
  BY DEF CreateQuestion, LibraryInv, BankTypeOK
<1>2. row.job = 0
  BY BankAssumption DEF Columns
<1>3. /\ \A i \in DOMAIN bank : i \in DOMAIN bank' /\ bank'[i] = bank[i]
      /\ \A i \in DOMAIN bank' : i \in DOMAIN bank \/ bank'[i] = row
  BY <1>1
<1>4. \A j \in DOMAIN jobs : j # 0
  BY <1>1
<1>5. \A j \in DOMAIN jobs : Made(j)' = Made(j)
  BY <1>2, <1>3, <1>4 DEF Made
<1>6. Len(jobs) \in Nat
  BY <1>1
<1> QED BY <1>1, <1>2, <1>3, <1>5, <1>6 DEF JobsSound, OneAtATime

\* A new job has no questions.
LEMMA CreateJobJobs ==
  ASSUME LibraryInv, JobsSound, NEW r \in Requests, NEW asked, CreateJob(r, asked)
  PROVE  JobsSound' /\ \A j \in DOMAIN jobs : Made(j)' = Made(j)
<1> DEFINE job == [topic |-> asked.topic, type |-> asked.type, count |-> asked.count,
                   status |-> "completed"]
<1>1. /\ jobs' = Append(jobs, job) /\ UNCHANGED <<bank, req>>
      /\ jobs \in Seq(AIQuestionGenerationJob) /\ job.status = "completed"
  BY DEF CreateJob, LibraryInv, BankTypeOK
<1> HIDE DEF job
<1>2. /\ Len(jobs') = Len(jobs) + 1 /\ Len(jobs) \in Nat
      /\ DOMAIN jobs' = DOMAIN jobs \cup {Len(jobs) + 1}
      /\ \A j \in DOMAIN jobs : jobs'[j] = jobs[j]
      /\ jobs'[Len(jobs) + 1] = job
  BY <1>1
<1>3. \A j \in DOMAIN jobs' : Made(j)' = Made(j)
  BY <1>1 DEF Made
<1>4. Made(Len(jobs) + 1) = {}
  BY <1>2 DEF Made, JobsSound
<1>5. \A i \in DOMAIN bank' : bank'[i].job \in 0 .. Len(jobs')
  BY <1>1, <1>2 DEF JobsSound
<1>6. \A j \in DOMAIN jobs' : jobs'[j].status = "approved" <=> Made(j)' # {}
  BY <1>1, <1>2, <1>3, <1>4 DEF JobsSound
<1>7. OneAtATime' => \A p \in Requests : Approving(req'[p]) => jobs'[req'[p].job].status = "completed"
  BY <1>1, <1>2 DEF JobsSound, OneAtATime, Approving, LibraryInv, LibraryCarried, LibraryCarries,
     Approval
<1> QED BY <1>2, <1>3, <1>5, <1>6, <1>7 DEF JobsSound, Approving

\* An approval makes the questions of its job, and of no other.
LEMMA ApproveSaveJobs ==
  ASSUME LibraryInv, JobsSound, NEW r \in Requests, ApproveSave(r)
  PROVE  /\ JobsSound'
         /\ OneAtATime => \A j \in DOMAIN jobs : Made(j)' # Made(j) => Made(j) = {}
<1> DEFINE x == req[r]
<1>0. OnlySlot(r, LibraryLabels) /\ "unused" \notin LibraryLabels /\ Slots
  BY LibraryHandlerSlot DEF LibraryInv, LibraryLabels, JobStep
<1>1. Approval(x) /\ FromCandidate(x).job = x.job /\ jobs \in Seq(AIQuestionGenerationJob)
  BY CandidateType DEF ApproveSave, LibraryInv, BankTypeOK, LibraryCarried, LibraryCarries
<1>2. /\ DOMAIN jobs' = DOMAIN jobs /\ Len(jobs') = Len(jobs)
      /\ \A j \in DOMAIN jobs : j # x.job => jobs'[j] = jobs[j]
      /\ jobs'[x.job].status = "approved"
  <2> DEFINE approved == [jobs[x.job] EXCEPT !.status = "approved"]
  <2>1. jobs[x.job] \in AIQuestionGenerationJob
    BY <1>1 DEF Approval
  <2>2. approved \in AIQuestionGenerationJob /\ approved.status = "approved"
    BY <2>1 DEF AIQuestionGenerationJob
  <2>3. jobs' = [jobs EXCEPT ![x.job] = approved]
    BY DEF ApproveSave
  <2> HIDE DEF approved
  <2> QED BY <1>1, <2>2, <2>3 DEF Approval
<1>3. \A j \in DOMAIN jobs : IF j = x.job THEN Made(j)' # {} ELSE Made(j)' = Made(j)
  <2>1. PICK new \in DOMAIN bank' \ DOMAIN bank : TRUE
    BY ApprovedRows
  <2>2. /\ \A i \in DOMAIN bank : i \in DOMAIN bank' /\ bank'[i] = bank[i]
        /\ \A i \in DOMAIN bank' \ DOMAIN bank : bank'[i].job = x.job
    BY <1>1, ApprovedRows
  <2>3. \A j \in DOMAIN jobs : j # x.job => Made(j)' = Made(j)
    BY <2>2 DEF Made
  <2>4. \A j \in DOMAIN jobs : j = x.job => new \in Made(j)'
    BY <2>1, <2>2 DEF Made
  <2> QED BY <2>3, <2>4
<1>4. \A i \in DOMAIN bank' : bank'[i].job \in 0 .. Len(jobs')
  <2>1. x.job \in 0 .. Len(jobs)
    BY <1>1 DEF Approval
  <2>2. /\ \A i \in DOMAIN bank : bank'[i] = bank[i]
        /\ \A i \in DOMAIN bank' \ DOMAIN bank : bank'[i].job = x.job
    BY <1>1, ApprovedRows
  <2> QED BY <1>2, <2>1, <2>2 DEF JobsSound
<1>5. \A j \in DOMAIN jobs' : jobs'[j].status = "approved" <=> Made(j)' # {}
  BY <1>2, <1>3 DEF JobsSound
<1>6. OneAtATime' => \A p \in Requests : ~Approving(req'[p])
  <2>1. req'[r] = Idle
    BY <1>0 DEF ApproveSave, Return, Slots
  <2> QED BY <1>0, <2>1, OneSlot DEF Approving, Idle, Unused
<1>7. OneAtATime => Made(x.job) = {}
  BY <1>1 DEF ApproveSave, JobsSound, Approval
<1> QED BY <1>3, <1>4, <1>5, <1>6, <1>7 DEF JobsSound, Approving

\* Every handler keeps the jobs sound, and makes questions only of a job that
\* has none.
LEMMA JobsHandler ==
  ASSUME LibraryInv, JobsSound, NEW r \in Requests, BankStep(r) \/ JobStep(r)
  PROVE  /\ JobsSound'
         /\ OneAtATime => \A j \in DOMAIN jobs : Made(j)' # Made(j) => Made(j) = {}
<1> DEFINE x == req[r]
<1> USE DEF Begin, Continue, Return, Idle, Approving
<1>0. OnlySlot(r, LibraryLabels) /\ "unused" \notin LibraryLabels /\ Slots
  BY LibraryHandlerSlot DEF LibraryInv, LibraryLabels
<1>1. ASSUME NEW slug, CreateTopic(r, slug)
      PROVE  JobsSound' /\ \A j \in DOMAIN jobs : Made(j)' = Made(j)
  BY <1>0, <1>1, JobsQuiet DEF CreateTopic
<1>2. ASSUME NEW i, NEW edit, EditLoad(r, i, edit)
      PROVE  JobsSound' /\ \A j \in DOMAIN jobs : Made(j)' = Made(j)
  <2>1. req'[r].at = "edit.save" /\ UNCHANGED <<bank, jobs>>
    BY <1>0, <1>2 DEF EditLoad, library, Slots
  <2> QED BY <1>0, <2>1, JobsQuiet
<1>3. ASSUME EditSave(r)
      PROVE  JobsSound' /\ \A j \in DOMAIN jobs : Made(j)' = Made(j)
  <2>1. EditRow(x) /\ x.new.job = x.row.job
    BY <1>3 DEF EditSave, LibraryInv, LibraryCarried, LibraryCarries
  <2>2. Written(bank[x.id], x.row, x.new).job = bank[x.id].job
    <3>1. bank[x.id] \in QuestionRow
      BY <2>1 DEF EditRow, LibraryInv
    <3> QED BY <2>1, <3>1, WrittenType DEF EditRow
  <2>3. /\ DOMAIN bank' = DOMAIN bank /\ UNCHANGED jobs /\ req'[r].at = "idle"
        /\ \A i \in DOMAIN bank : bank'[i].job = bank[i].job
    BY <1>0, <1>3, <2>1, <2>2 DEF EditSave, EditRow, Slots
  <2> QED BY <1>0, <2>3, JobsQuiet
<1>4. ASSUME NEW j \in DOMAIN jobs, NEW indexes, NEW status, ApproveLoad(r, j, indexes, status)
      PROVE  JobsSound' /\ \A k \in DOMAIN jobs : Made(k)' = Made(k)
  <2>1. req'[r].job = j /\ jobs[j].status = "completed" /\ UNCHANGED <<bank, jobs>>
    BY <1>0, <1>4 DEF ApproveLoad, library, Slots
  <2> QED BY <1>0, <2>1, JobsQuiet
<1>5. ASSUME ApproveTopic(r) \/ ApproveInsert(r)
      PROVE  JobsSound' /\ \A j \in DOMAIN jobs : Made(j)' = Made(j)
  <2>1. UNCHANGED <<bank, jobs>> /\ Approving(x) /\ (req'[r].job = x.job \/ req'[r].at = "idle")
    <3>1. ASSUME ApproveInsert(r)
          PROVE  Approving(x) /\ (req'[r].job = x.job \/ req'[r].at = "idle")
      BY <1>0, <3>1 DEF ApproveInsert, Slots
    <3>2. ASSUME ApproveTopic(r) PROVE Approving(x) /\ req'[r].job = x.job
      <4>1. CASE req'[r] = [x EXCEPT !.at = "approve.insert"]
        BY <3>2, <4>1 DEF ApproveTopic
      <4>2. ASSUME NEW topic,
                   req'[r] = [at |-> "approve.save", job |-> x.job, indexes |-> x.indexes,
                              status |-> x.status, topic |-> topic, created |-> FALSE]
            PROVE  Approving(x) /\ req'[r].job = x.job
        BY <3>2, <4>2 DEF ApproveTopic
      <4> QED BY <1>0, <3>2, <4>1, <4>2 DEF ApproveTopic, Slots
    <3> QED BY <1>5, <3>1, <3>2 DEF ApproveTopic, ApproveInsert, library
  <2> QED BY <1>0, <2>1, JobsQuiet
<1>6. ASSUME NEW row \in Drafts, CreateQuestion(r, row)
      PROVE  JobsSound' /\ \A j \in DOMAIN jobs : Made(j)' = Made(j)
  BY <1>6, CreateQuestionJobs
<1>7. ASSUME NEW asked, CreateJob(r, asked)
      PROVE  JobsSound' /\ \A j \in DOMAIN jobs : Made(j)' = Made(j)
  BY <1>7, CreateJobJobs
<1> HIDE DEF Begin, Continue, Return, Idle, Approving
<1> QED
  BY <1>1, <1>2, <1>3, <1>4, <1>5, <1>6, <1>7, ApproveSaveJobs
     DEF BankStep, JobStep

\* Every step does.
LEMMA JobsStep ==
  ASSUME LibraryInv, JobsSound, [AuthoringNext]_authoringVars
  PROVE  /\ JobsSound'
         /\ OneAtATime => \A j \in DOMAIN jobs : Made(j)' # Made(j) => Made(j) = {}
<1>1. ASSUME NEW r \in Requests, SetStep(r) \/ WindowStep(r), UNCHANGED library
      PROVE  JobsSound' /\ \A j \in DOMAIN jobs : Made(j)' = Made(j)
  <2>1. OnlySlot(r, SetLabels) \/ OnlySlot(r, {"window.save"})
    BY <1>1, SetHandlers, SetSlot, WindowSlot DEF LibraryInv
  <2>2. "unused" \notin SetLabels /\ ~Approving(req'[r])
    BY <2>1 DEF OnlySlot, SetLabels, Approving
  <2> QED BY <1>1, <2>1, <2>2, JobsQuiet DEF library
<1>2. CASE UNCHANGED authoringVars
  BY <1>2 DEF authoringVars, library, JobsSound, OneAtATime, Made
<1> QED BY <1>1, <1>2, JobsHandler DEF AuthoringNext, LibraryStep, library

\* A job is approved together with its questions, whoever interferes; with one
\* request at a time its candidates become questions only once.
THEOREM JobsApprovedOnceCorrect == AuthoringSpec => JobsApprovedOnce
<1> DEFINE Approved == \A j \in DOMAIN jobs : jobs[j].status = "approved" <=> Made(j) # {}
           Once == OneAtATime => \A j \in DOMAIN jobs : Made(j)' # Made(j) => Made(j) = {}
<1>1. AuthoringInit => JobsSound
  BY DEF AuthoringInit, Init, BankInit, InitRequests, Idle, Unused, JobsSound
<1>2. JobsSound => Approved
  BY DEF JobsSound
<1>3. LibraryInv /\ JobsSound /\ [AuthoringNext]_authoringVars => [Once]_<<bank, jobs>>
  BY JobsStep
<1> QED
  BY <1>1, <1>2, <1>3, LibraryInit, LibraryStepType, JobsStep, PTL DEF AuthoringSpec, JobsApprovedOnce

\* The property that the run checks: questions fit their type, and jobs make theirs once.
THEOREM BankKeptCorrect == AuthoringSpec => BankKept
BY QuestionsWellFormedCorrect, JobsApprovedOnceCorrect, PTL DEF BankKept

-----------------------------------------------------------------------------
(* The assessment's window.                                                   *)

\* An update in flight is about an assessment that exists, and none of them says
\* whether it has questions; one that has loaded a live assessment changes no column
\* or makes it scheduled.
WindowCarries(x) ==
  x.at = "window.save" =>
    /\ exam \in Assessment /\ x.row \in Assessment /\ x.new \in Assessment
    /\ x.row.asked = exam.asked /\ x.new.asked = exam.asked
    /\ x.new.status = "scheduled" => x.new.asked
    /\ x.row.status = "live" => x.new = x.row \/ x.new.status = "scheduled"

\* The invariant of an assessment's window.
WindowInv ==
  /\ Slots /\ WindowTypeOK
  /\ \A r \in Requests : WindowCarries(req[r])

\* What a step does to a live assessment that stays live.
SettlesStep ==
  exam.status = "live" /\ exam'.status = "live" =>
    /\ \A r \in Requests : LoadedBefore(r)' => LoadedBefore(r)
    /\ Admitted(exam') # Admitted(exam) =>
         \E r \in Requests : LoadedBefore(r) /\ ~LoadedBefore(r)'

\* The row that an update leaves.
LEMMA WindowWritten ==
  ASSUME NEW row \in Assessment, NEW new \in Assessment, NEW now \in Assessment,
         row.asked = now.asked, new.asked = now.asked
  PROVE  /\ Written(now, row, new) \in Assessment /\ Written(now, row, new).asked = now.asked
         /\ Written(now, row, new).status \in {now.status, new.status}
         /\ new.status # row.status => Written(now, row, new).status = new.status
         /\ new = row => Written(now, row, new) = now
BY DEF Written, Flushed, Assessment

\* A step that leaves the row alone.
LEMMA WindowQuiet ==
  ASSUME WindowInv, NEW r \in Requests, NEW labels, OnlySlot(r, labels), UNCHANGED exam,
         WindowCarries(req[r])', exam.status = "live" => ~LoadedBefore(r)'
  PROVE  WindowInv' /\ SettlesStep
BY DEF WindowInv, WindowTypeOK, WindowCarries, OnlySlot, SettlesStep, LoadedBefore

\* Every handler of it keeps the invariant, and lets the window of a live assessment
\* settle.
LEMMA WindowStepType ==
  ASSUME WindowInv, NEW r \in Requests, WindowStep(r)
  PROVE  WindowInv' /\ SettlesStep
<1> DEFINE Goal == WindowInv' /\ SettlesStep
<1>0. OnlySlot(r, {"window.save"}) /\ Slots /\ WindowTypeOK
  BY WindowSlot DEF WindowInv
<1>1. ASSUME NEW starts \in Ends, NEW ends \in Ends, NEW asked \in BOOLEAN, NEW batch \in BOOLEAN,
             CreateAssessment(r, starts, ends, asked, batch)
      PROVE  Goal
  <2>1. exam' \in Assessment /\ exam'.status = "draft" /\ UNCHANGED req
    BY <1>1 DEF CreateAssessment, Assessment, Ends
  <2>2. \A p \in Requests : req[p].at # "window.save"
    BY <1>1 DEF CreateAssessment, WindowInv, WindowCarries, NoExam, Assessment
  <2>3. WindowInv'
    BY <1>0, <2>1, <2>2 DEF WindowInv, WindowTypeOK, WindowCarries, Slots
  <2> QED BY <2>1, <2>3 DEF SettlesStep
<1>2. ASSUME NEW new \in Assessment, exam \in Assessment, UNCHANGED exam,
             req'[r] = [at |-> "window.save", row |-> exam, new |-> new],
             new.asked = exam.asked, new.status = "scheduled" => new.asked,
             exam.status = "live" => new = exam \/ new.status = "scheduled"
      PROVE  Goal
  <2>1. WindowCarries(req[r])' /\ (exam.status = "live" => ~LoadedBefore(r)')
    BY <1>2 DEF WindowCarries, LoadedBefore
  <2> QED BY <1>0, <1>2, <2>1, WindowQuiet
<1>3. ASSUME exam # NoExam PROVE exam \in Assessment
  BY <1>0, <1>3 DEF WindowTypeOK
<1>4. ASSUME NEW starts \in Ends, NEW ends \in Ends, exam # NoExam,
             UpdateWindow(r, [exam EXCEPT !.starts = starts, !.ends = ends])
      PROVE  Goal
  <2> DEFINE new == [exam EXCEPT !.starts = starts, !.ends = ends]
  <2>1. /\ new \in Assessment /\ new.asked = exam.asked /\ new.status = exam.status
        /\ exam.status # "live" /\ UNCHANGED exam
        /\ req'[r] = [at |-> "window.save", row |-> exam, new |-> new]
    BY <1>0, <1>3, <1>4 DEF UpdateWindow, Begin, Assessment, Ends, Slots
  <2> HIDE DEF new
  <2> QED BY <1>0, <1>2, <1>3, <1>4, <2>1 DEF WindowTypeOK
<1>5. ASSUME NEW batch \in BOOLEAN, exam # NoExam, UpdateWindow(r, [exam EXCEPT !.batch = batch])
      PROVE  Goal
  <2> DEFINE new == [exam EXCEPT !.batch = batch]
  <2>1. /\ new \in Assessment /\ new.asked = exam.asked /\ new.status = exam.status
        /\ exam.status # "live" /\ UNCHANGED exam
        /\ req'[r] = [at |-> "window.save", row |-> exam, new |-> new]
    BY <1>0, <1>3, <1>5 DEF UpdateWindow, Begin, Assessment, Slots
  <2> HIDE DEF new
  <2> QED BY <1>0, <1>2, <1>3, <1>5, <2>1 DEF WindowTypeOK
<1>6. ASSUME NEW starts \in Time, NEW ends \in Time, exam # NoExam,
             ScheduleAssessment(r, starts, ends)
      PROVE  Goal
  <2> DEFINE new == [exam EXCEPT !.starts = starts, !.ends = ends, !.status = "scheduled"]
  <2>1. /\ new \in Assessment /\ new.asked = exam.asked /\ new.status = "scheduled"
        /\ exam.asked /\ UNCHANGED exam
        /\ req'[r] = [at |-> "window.save", row |-> exam, new |-> new]
    BY <1>0, <1>3, <1>6 DEF ScheduleAssessment, Begin, Assessment, Slots
  <2> HIDE DEF new
  <2> QED BY <1>2, <1>3, <1>6, <2>1
<1>7. ASSUME NEW force, exam # NoExam, PublishAssessment(r, force) PROVE Goal
  <2> DEFINE new == [exam EXCEPT !.status = "live"]
  <2>1. /\ new \in Assessment /\ new.asked = exam.asked /\ new.status = "live"
        /\ exam.status = "live" => new = exam
        /\ UNCHANGED exam
        /\ req'[r] = [at |-> "window.save", row |-> exam, new |-> new]
    BY <1>0, <1>3, <1>7 DEF PublishAssessment, Begin, Assessment, Slots
  <2> HIDE DEF new
  <2> QED BY <1>2, <1>3, <1>7, <2>1
<1>8. CASE WindowSave(r)
  <2> DEFINE x == req[r]
  <2>1. /\ WindowCarries(x) /\ x.at = "window.save" /\ exam' = Written(exam, x.row, x.new)
        /\ req'[r] = Idle
    BY <1>0, <1>8 DEF WindowSave, WindowInv, Return, Slots
  <2>2. /\ exam' \in Assessment /\ exam'.asked = exam.asked
        /\ exam'.status \in {exam.status, x.new.status}
        /\ x.row.status = "live" => exam' = exam \/ exam'.status = "scheduled"
    BY <2>1, WindowWritten DEF WindowCarries
  <2>3. WindowTypeOK'
    BY <1>0, <2>1, <2>2 DEF WindowTypeOK, WindowCarries
  <2>4. \A p \in Requests : WindowCarries(req[p])'
    BY <1>0, <2>1, <2>2 DEF WindowInv, WindowCarries, OnlySlot, Idle
  <2>5. /\ ~LoadedBefore(r)'
        /\ \A p \in Requests \ {r} : LoadedBefore(p)' => LoadedBefore(p)
    BY <1>0, <2>1 DEF OnlySlot, LoadedBefore, Idle
  <2>6. exam.status = "live" /\ exam'.status = "live" /\ exam' # exam
          => LoadedBefore(r) /\ ~LoadedBefore(r)'
    BY <2>1, <2>2, <2>5 DEF LoadedBefore
  <2> QED BY <1>0, <2>3, <2>4, <2>5, <2>6 DEF WindowInv, OnlySlot, SettlesStep
<1> QED BY <1>1, <1>4, <1>5, <1>6, <1>7, <1>8 DEF WindowStep

\* The assessment begins as a draft.
LEMMA WindowInit0 == AuthoringInit => WindowInv
BY DEF AuthoringInit, Init, WindowInit, InitRequests, Idle, Unused, WindowInv, Slots, NoExam,
       WindowTypeOK, WindowCarries

\* Every step keeps the invariant, and lets the window of a live assessment settle.
LEMMA WindowNext ==
  ASSUME WindowInv, [AuthoringNext]_authoringVars
  PROVE  WindowInv' /\ SettlesStep
<1>1. ASSUME NEW r \in Requests, SetStep(r) \/ LibraryStep(r), UNCHANGED exam
      PROVE  WindowInv' /\ SettlesStep
  <2>1. OnlySlot(r, SetLabels) \/ OnlySlot(r, LibraryLabels)
    BY <1>1, SetHandlers, SetSlot, LibrarySlot DEF WindowInv
  <2>2. req'[r].at # "window.save"
    BY <2>1 DEF OnlySlot, SetLabels, LibraryLabels
  <2>3. WindowCarries(req[r])' /\ ~LoadedBefore(r)'
    BY <2>2 DEF WindowCarries, LoadedBefore
  <2> QED BY <1>1, <2>1, <2>3, WindowQuiet
<1>2. CASE UNCHANGED authoringVars
  BY <1>2 DEF authoringVars, WindowInv, Slots, WindowTypeOK, WindowCarries, SettlesStep,
     LoadedBefore
<1> QED BY <1>1, <1>2, WindowStepType DEF AuthoringNext

\* The assessment's row has its columns' types, and one that waits for its window
\* has questions, whatever the order in which it is updated, scheduled and published.
THEOREM WindowTypeCorrect == AuthoringSpec => []WindowTypeOK
<1>1. WindowInv => WindowTypeOK
  BY DEF WindowInv
<1> QED BY <1>1, WindowInit0, WindowNext, PTL DEF AuthoringSpec

\* With any number of updates, schedules and publishes in flight, only those that
\* loaded the assessment before it was published change who may start an attempt, and
\* when, while it is live; they become fewer.
THEOREM LiveWindowSettlesCorrect == AuthoringSpec => LiveWindowSettles
<1>1. WindowInv /\ [AuthoringNext]_authoringVars => SettlesStep
  BY WindowNext
<1> QED BY <1>1, WindowInit0, WindowNext, PTL DEF AuthoringSpec, LiveWindowSettles, SettlesStep

-----------------------------------------------------------------------------
(* The set: types.                                                            *)

\* What a request in flight carries.
SetCarries(x) ==
  /\ x.at = "update.save" => x.q \in Questions /\ x.seen \in Nat \ {0} /\ x.marks \in Marks
  /\ x.at \in {"add.question", "add.item", "add.insert", "add.recalculate"} =>
       x.q \in Questions
  /\ x.at \in {"add.question", "add.item"} =>
       x.order \in Orders \cup {Null} /\ x.override \in Marks \cup {Null}
  /\ x.at \in {"add.item", "add.insert", "add.recalculate", "remove.delete",
               "remove.recalculate"} => x.known \in Nat \ {0}
  /\ x.at \in {"add.insert", "add.recalculate", "add.save"} => x.item \in Item
  /\ x.at \in {"remove.delete", "remove.recalculate"} => x.q \in Questions
  /\ x.at \in {"add.save", "remove.save", "paper.items", "paper.questions"} => x.total \in Nat
  /\ x.at = "paper.questions" =>
       DOMAIN x.items \subseteq ItemIds /\ \A i \in DOMAIN x.items : x.items[i] \in Item
  /\ x.at = "paper.save" => IsPaper(x.paper)

\* The requests that will insert an item.
Adders ==
  {p \in Requests : req[p].at \in {"add.question", "add.item", "add.insert"}}

\* A request that reorders items of the set.
InReorder(x) == x.at \in {"reorder.load", "reorder.aside", "reorder.place"}

\* It has loaded them all.
Loaded(x) == x.at \in {"reorder.aside", "reorder.place"}

\* What it carries: as many positions as items, each item once, and the positions that
\* it has loaded.
Payload(x) ==
  /\ x.ids \in Seq(Nat) /\ x.places \in Seq(Nat) /\ Len(x.places) = Len(x.ids)
  /\ \A n \in DOMAIN x.ids : x.ids[n] \in 1 .. created
  /\ \A n, k \in DOMAIN x.ids : x.ids[n] = x.ids[k] => n = k
  /\ x.loaded \in Seq(Nat)

\* The rows that it has written are those that it names, each at the position of the
\* first flush or of the second.
Moves(x) ==
  /\ Len(x.loaded) = Len(x.ids) /\ x.todo \subseteq DOMAIN x.ids
  /\ \A i \in DOMAIN x.own : \E n \in DOMAIN x.ids : x.ids[n] = i
  /\ \A n \in DOMAIN x.ids :
       x.ids[n] \in DOMAIN x.own =>
         \/ x.own[x.ids[n]] = Aside + n
         \/ x.at = "reorder.place" /\ x.own[x.ids[n]] = x.places[n]

\* An item that is there and that the first flush is through with has been written.
Covers(x) ==
  \A n \in DOMAIN x.ids :
    n \in Differing(x.loaded, AsideOf(x.ids)) /\ x.ids[n] \in DOMAIN items =>
      x.ids[n] \in DOMAIN x.own \/ (x.at = "reorder.aside" /\ n \in x.todo)

\* What a request carries for a reorder.
ReorderCarries(x) ==
  /\ InReorder(x) => Payload(x)
  /\ x.at = "reorder.load" =>
       /\ x = [at |-> "reorder.load", ids |-> x.ids, places |-> x.places, loaded |-> x.loaded]
       /\ Len(x.loaded) < Len(x.ids)
  /\ Loaded(x) => Moves(x) /\ Covers(x)

\* An item that is being inserted is in nobody's payload.
ReordersInv ==
  \A r \in Requests :
    /\ ReorderCarries(req[r])
    /\ \A p \in Requests : Inserting(p) /\ InReorder(req[r]) =>
         \A n \in DOMAIN req[r].ids : req[r].ids[n] # req[p].id

\* The inductive invariant of question sets: the items, and those about to be
\* inserted, are within the bound.
SetInv ==
  /\ KeysInv /\ TypeOK /\ ReordersInv
  /\ created + Cardinality(Adders) <= MaxItems
  /\ \A r \in Requests : SetCarries(req[r])

\* The set begins empty.
LEMMA SetInit == AuthoringInit => SetInv
<1> SUFFICES ASSUME AuthoringInit PROVE SetInv
  OBVIOUS
<1>1. \A r \in Requests : req[r].at \in {"idle", "unused"}
  BY DEF AuthoringInit, Init, InitRequests, Idle, Unused
<1>2. Adders = {}
  BY <1>1 DEF Adders
<1>3. TypeOK
  BY <1>1, SetsAssumption DEF AuthoringInit, Init, TypeOK, Inserting
<1> QED
  BY <1>1, <1>2, <1>3, KeysInit, FS_EmptySet, SetsAssumption
     DEF AuthoringInit, Init, SetInv, SetCarries, ReordersInv, ReorderCarries, InReorder, Loaded,
         Inserting

\* The next place in a set is a natural number.
LEMMA NextOrderType ==
  ASSUME NEW rows, IsFiniteSet(DOMAIN rows), \A i \in DOMAIN rows : rows[i] \in Item
  PROVE  NextOrder(rows) \in Nat
<1> DEFINE orders == {rows[i].order : i \in DOMAIN rows}
<1>1. orders \subseteq Nat
  BY DEF Item
<1>2. IsFiniteSet(orders)
  <2>1. [i \in DOMAIN rows |-> rows[i].order] \in Surjection(DOMAIN rows, orders)
    BY DEF Surjection
  <2> QED BY <2>1, FS_Surjection
<1>3. CASE orders = {}
  BY <1>3 DEF NextOrder
<1>4. CASE orders # {}
  <2> HIDE DEF orders
  <2>1. \E o \in orders : \A p \in orders : p <= o
    BY <1>1, <1>2, <1>4, Greatest
  <2>2. (CHOOSE o \in orders : \A p \in orders : p <= o) \in Nat
    BY <1>1, <2>1
  <2> QED BY <1>4, <2>2 DEF NextOrder, orders
<1> QED BY <1>3, <1>4

\* What items are worth.
LEMMA WorthType ==
  ASSUME NEW item \in Item, NEW marks \in [Questions -> Nat \ {0}]
  PROVE  Worth(item, marks) \in Nat
BY SetsAssumption DEF Worth, Item

\* So is the total of its marks.
LEMMA SetTotalType ==
  ASSUME NEW rows, IsFiniteSet(DOMAIN rows), \A i \in DOMAIN rows : rows[i] \in Item,
         NEW marks \in [Questions -> Nat \ {0}]
  PROVE  SetTotal(rows, marks) \in Nat
<1> DEFINE worth == [i \in DOMAIN rows |-> Worth(rows[i], marks)]
<1>1. DOMAIN worth = DOMAIN rows /\ \A i \in DOMAIN worth : worth[i] \in Nat
  BY WorthType
<1> HIDE DEF worth
<1>2. SumFunction(worth) \in Nat
  BY <1>1, SumInNat
<1> QED BY <1>2 DEF SetTotal, worth

\* A set has finitely many items.
LEMMA ItemsFinite == ASSUME SetInv PROVE IsFiniteSet(DOMAIN items) /\ DOMAIN items \subseteq ItemIds
<1>1. DOMAIN items \subseteq ItemIds
  <2>1. DOMAIN items \subseteq 1 .. created /\ created \in 0 .. MaxItems
    BY DEF SetInv, TypeOK
  <2>2. 1 .. created \subseteq ItemIds
    BY <2>1, SetsAssumption DEF ItemIds
  <2> QED BY <2>1, <2>2
<1>2. IsFiniteSet(ItemIds)
  BY FS_Interval, SetsAssumption DEF ItemIds
<1> QED BY <1>1, <1>2, FS_Subset

\* The types of the tables.
RowsTyped ==
  /\ questions \in [Questions -> Nat \ {0}]
  /\ \A i \in DOMAIN items : items[i] \in Item
  /\ total \in Nat /\ created \in 0 .. MaxItems
  /\ paper = Null \/ IsPaper(paper)

\* What the other requests have read and written for a reorder stays valid: the only
\* item that appears is in nobody's payload.
LEMMA ReordersKept ==
  ASSUME SetInv, NEW r \in Requests, NEW labels, OnlySlot(r, labels),
         created' \in Nat, created <= created',
         \A i \in DOMAIN items' \ DOMAIN items : Inserting(r) /\ i = req[r].id,
         Inserting(r)' => (Inserting(r) /\ req'[r].id = req[r].id) \/ req'[r].id > created,
         ReorderCarries(req[r])',
         InReorder(req'[r]) => \A p \in Requests \ {r} : Inserting(p) =>
           \A n \in DOMAIN req'[r].ids : req'[r].ids[n] # req[p].id
  PROVE  ReordersInv'
<1>1. ASSUME NEW p \in Requests \ {r} PROVE ReorderCarries(req[p])'
  <2> DEFINE x == req[p]
  <2>1. req'[p] = x /\ ReorderCarries(x) /\ created \in Nat
    BY DEF OnlySlot, SetInv, ReordersInv, KeysInv
  <2>2. InReorder(x) => Payload(x)'
    BY <2>1 DEF ReorderCarries, Payload
  <2>3. Loaded(x) => Moves(x)' /\ Covers(x)'
    <3>1. ASSUME Loaded(x) PROVE Moves(x)' /\ Covers(x)'
      <4>1. Moves(x) /\ Covers(x) /\ InReorder(x)
        BY <2>1, <3>1 DEF ReorderCarries, Loaded, InReorder
      <4>2. Moves(x)'
        BY <2>1, <4>1 DEF Moves
      <4>3. ASSUME NEW n \in DOMAIN x.ids, x.ids[n] \in DOMAIN items' PROVE x.ids[n] \in DOMAIN items
        BY <4>1, <4>3 DEF SetInv, ReordersInv
      <4>4. Covers(x)'
        BY <2>1, <4>1, <4>3 DEF Covers
      <4> QED BY <4>2, <4>4
    <3> QED BY <3>1
  <2> QED BY <2>1, <2>2, <2>3 DEF ReorderCarries, InReorder, Loaded
<1>2. ASSUME NEW p \in Requests, NEW q \in Requests, Inserting(p)', InReorder(req[q])',
             NEW n \in DOMAIN req'[q].ids
      PROVE  req'[q].ids[n] # req'[p].id
  <2>1. ~(p = r /\ q = r)
    BY <1>2 DEF Inserting, InReorder
  <2>2. CASE p # r /\ q # r
    <3>1. req'[p] = req[p] /\ req'[q] = req[q]
      BY <2>2 DEF OnlySlot
    <3> QED BY <1>2, <3>1 DEF SetInv, ReordersInv, Inserting
  <2>3. CASE p # r /\ q = r
    <3>1. req'[p] = req[p]
      BY <2>3 DEF OnlySlot
    <3> QED BY <1>2, <2>3, <3>1 DEF Inserting
  <2>4. CASE p = r /\ q # r
    <3>1. req'[q] = req[q]
      BY <2>4 DEF OnlySlot
    <3>2. Payload(req[q]) /\ created \in Nat /\ InReorder(req[q])
      BY <1>2, <3>1 DEF SetInv, ReordersInv, ReorderCarries, KeysInv
    <3>3. req[q].ids[n] \in 1 .. created
      BY <1>2, <3>1, <3>2 DEF Payload
    <3> QED BY <1>2, <2>4, <3>1, <3>2, <3>3 DEF SetInv, ReordersInv
  <2> QED BY <2>1, <2>2, <2>3, <2>4
<1>3. \A p \in Requests : ReorderCarries(req[p])'
  BY <1>1
<1> QED BY <1>2, <1>3 DEF ReordersInv

\* A request that reorders nothing by then.
LEMMA ReordersQuiet ==
  ASSUME SetInv, NEW r \in Requests, NEW labels, OnlySlot(r, labels),
         created' \in Nat, created <= created',
         \A i \in DOMAIN items' \ DOMAIN items : Inserting(r) /\ i = req[r].id,
         Inserting(r)' => (Inserting(r) /\ req'[r].id = req[r].id) \/ req'[r].id > created,
         ~InReorder(req'[r])
  PROVE  ReordersInv'
<1>1. ReorderCarries(req[r])'
  BY DEF ReorderCarries, InReorder, Loaded
<1> QED BY <1>1, ReordersKept

\* A step of a reorder, which inserts nothing.
LEMMA ReordersOwn ==
  ASSUME SetInv, NEW r \in Requests, NEW labels, OnlySlot(r, labels), UNCHANGED created,
         DOMAIN items' = DOMAIN items, ReorderCarries(req[r])', InReorder(req'[r]),
         InReorder(req[r]) /\ req'[r].ids = req[r].ids
  PROVE  ReordersInv'
<1>1. ~Inserting(r)' /\ created \in Nat
  BY DEF Inserting, InReorder, SetInv, KeysInv
<1> QED BY <1>1, ReordersKept DEF SetInv, ReordersInv

\* The steps that have no part in a reorder.
LEMMA ReordersOther ==
  ASSUME SetInv, NEW r \in Requests, SetHandler(r), ~ReorderStep(r)
  PROVE  ReordersInv'
<1> DEFINE x == req[r]
<1>1. OnlySlot(r, SetLabels) /\ Slots /\ created \in Nat
  BY SetSlot DEF SetInv, KeysInv
<1>2. ASSUME UNCHANGED created, DOMAIN items' \subseteq DOMAIN items, ~Inserting(r)',
             ~InReorder(req'[r])
      PROVE  ReordersInv'
  BY <1>1, <1>2, ReordersQuiet
<1>3. ASSUME \/ \E q \in Questions, order \in Orders \cup {Null}, override \in Marks \cup {Null} :
                  AddLoadSet(r, q, order, override)
             \/ QuestionStep(r) \/ PaperStep(r)
      PROVE  ReordersInv'
  <2>1. ~Inserting(r)' /\ ~InReorder(req'[r]) /\ UNCHANGED <<items, created>>
    BY <1>1, <1>3 DEF AddLoadSet, QuestionStep, UpdateLoad, UpdateSave, PaperStep, PaperLoadSet,
       PaperLoadItems, PaperLoadQuestions, PaperSave, Inserting, InReorder, db, Begin, Continue,
       Return, Slots, Idle
  <2> QED BY <1>2, <2>1
<1>4. CASE RemoveStep(r)
  <2>1. CASE RemoveSave(r)
    BY <1>1, <1>2, <2>1 DEF RemoveSave, Without, Restrict, Return, Slots, Idle, Inserting, InReorder
  <2>2. CASE ~RemoveSave(r)
    <3>1. ~Inserting(r)' /\ ~InReorder(req'[r]) /\ UNCHANGED <<items, created>>
      BY <1>1, <1>4, <2>2 DEF RemoveStep, RemoveLoadSet, RemoveLoadItem, RemoveDelete,
         RemoveRecalculate, Inserting, InReorder, db, Begin, Continue, Return, Slots, Idle
    <3> QED BY <1>2, <3>1
  <2> QED BY <2>1, <2>2
<1>5. CASE AddRest(r)
  <2>1. CASE AddLoadQuestion(r) \/ AddLoadItems(r)
    BY <1>1, <1>2, <2>1 DEF AddLoadQuestion, AddLoadItems, Inserting, InReorder, db, Continue,
       Return, Slots, Idle
  <2>2. CASE AddInsert(r)
    <3>1. /\ UNCHANGED items /\ ~InReorder(req'[r]) /\ created' \in {created, created + 1}
          /\ Inserting(r)' => created' = created + 1 /\ req'[r].id = created'
      BY <1>1, <2>2 DEF AddInsert, Inserting, InReorder, db, Continue, Return, Slots, Idle
    <3> QED BY <1>1, <3>1, ReordersQuiet
  <2>3. CASE AddRecalculate(r)
    <3>1. /\ UNCHANGED <<items, created>> /\ ~InReorder(req'[r]) /\ req'[r].id = req[r].id
          /\ Inserting(r)
      BY <1>1, <2>3 DEF AddRecalculate, Inserting, InReorder, db, Continue, Slots
    <3> QED BY <1>1, <3>1, ReordersQuiet
  <2>4. CASE AddSave(r)
    <3>1. /\ DOMAIN items' = DOMAIN items \cup {x.id} /\ UNCHANGED created
          /\ Inserting(r) /\ ~Inserting(r)' /\ ~InReorder(req'[r])
      BY <1>1, <2>4 DEF AddSave, WithRow, Inserting, InReorder, Return, Slots, Idle
    <3> QED BY <1>1, <3>1, ReordersQuiet
  <2> QED BY <1>5, <2>1, <2>2, <2>3, <2>4 DEF AddRest
<1> QED BY <1>3, <1>4, <1>5 DEF SetHandler

\* A payload names items that are there and positions of its own choice.
LEMMA ReordersLoad ==
  ASSUME SetInv, NEW r \in Requests, NEW n \in 1 .. Cardinality(DOMAIN items),
         NEW ids \in [1 .. n -> DOMAIN items], NEW places \in [1 .. n -> Orders],
         IsInjective(ids), ReorderLoad(r, ids, places)
  PROVE  ReordersInv'
<1>1. OnlySlot(r, {"reorder.load"}) /\ Slots /\ UNCHANGED db
  BY DEF ReorderLoad, Begin, OnlySlot, Slots, SetInv, KeysInv, Idle
<1>2. req'[r] = [at |-> "reorder.load", ids |-> ids, places |-> places, loaded |-> << >>]
  BY <1>1 DEF ReorderLoad, Begin, Slots
<1>3. n \in Nat /\ 1 <= n
  <2>1. IsFiniteSet(DOMAIN items)
    <3>1. created \in Nat /\ DOMAIN items \subseteq 1 .. created
      BY DEF SetInv, KeysInv
    <3>2. IsFiniteSet(1 .. created)
      BY <3>1, FS_Interval
    <3> QED BY <3>1, <3>2, FS_Subset
  <2>2. Cardinality(DOMAIN items) \in Nat
    BY <2>1, FS_CardinalityType
  <2> QED BY <2>2
<1>4. /\ ids \in Seq(Nat) /\ Len(ids) = n /\ places \in Seq(Nat) /\ Len(places) = n
      /\ << >> \in Seq(Nat) /\ Len(<< >>) = 0
      /\ \A k \in DOMAIN ids : ids[k] \in DOMAIN items /\ ids[k] \in 1 .. created
  <2>1. DOMAIN items \subseteq 1 .. created /\ created \in Nat /\ Orders \subseteq Nat
    BY SetsAssumption DEF SetInv, KeysInv
  <2>2. ids \in [1 .. n -> Nat] /\ places \in [1 .. n -> Nat]
    <3>1. DOMAIN items \subseteq Nat
      BY <2>1
    <3> QED BY <2>1, <3>1
  <2> QED BY <1>3, <2>1, <2>2
<1>5. \A k, m \in DOMAIN ids : ids[k] = ids[m] => k = m
  BY DEF IsInjective
<1>6. /\ created' = created /\ items' = items /\ created \in Nat
      /\ ~Inserting(r)'
  BY <1>1, <1>2 DEF db, SetInv, KeysInv, Inserting
<1>7. ReorderCarries(req[r])'
  <2>1. Payload(req[r])'
    BY <1>2, <1>4, <1>5, <1>6 DEF Payload
  <2> QED BY <1>2, <1>3, <1>4, <2>1 DEF ReorderCarries, InReorder, Loaded
<1>8. \A p \in Requests \ {r} : Inserting(p) => \A k \in DOMAIN ids : ids[k] # req[p].id
  BY <1>4 DEF SetInv, KeysInv
<1> QED BY <1>1, <1>2, <1>6, <1>7, <1>8, ReordersKept

\* The positions are loaded in the payload's order, and then the first flush begins.
LEMMA ReordersLoadItem ==
  ASSUME SetInv, NEW r \in Requests, ReorderLoadItem(r)
  PROVE  ReordersInv'
<1> DEFINE x == req[r]
           k == Len(x.loaded) + 1
           loaded == Append(x.loaded, items[x.ids[k]].order)
           more == [x EXCEPT !.loaded = loaded]
           done == [at |-> "reorder.aside", ids |-> x.ids, places |-> x.places,
                    loaded |-> loaded, todo |-> Differing(loaded, AsideOf(x.ids)),
                    own |-> << >>, keys |-> {}]
<1>1. /\ OnlySlot(r, SetLabels) /\ Slots /\ UNCHANGED <<items, created>> /\ x.at = "reorder.load"
      /\ created \in Nat
  BY SetSlot DEF SetHandler, ReorderStep, SetInv, KeysInv, ReorderLoadItem, db
<1>2. /\ Payload(x) /\ Len(x.loaded) < Len(x.ids)
      /\ x = [at |-> "reorder.load", ids |-> x.ids, places |-> x.places, loaded |-> x.loaded]
  BY <1>1 DEF SetInv, ReordersInv, ReorderCarries, InReorder
<1>3. k \in DOMAIN x.ids /\ k \in Nat /\ Len(x.ids) \in Nat
  BY <1>2 DEF Payload
<1>4. CASE x.ids[k] \notin DOMAIN items
  <2>1. req'[r] = Idle
    BY <1>1, <1>4 DEF ReorderLoadItem, Return, Slots
  <2> QED BY <1>1, <2>1, ReordersQuiet DEF Idle, InReorder, Inserting
<1>5. CASE x.ids[k] \in DOMAIN items
  <2>1. loaded \in Seq(Nat) /\ Len(loaded) = k /\ DOMAIN loaded = 1 .. k
    <3>1. items[x.ids[k]].order \in Nat
      BY <1>5 DEF SetInv, TypeOK, Item
    <3> QED BY <1>2, <3>1 DEF Payload
  <2>2. CASE k < Len(x.ids)
    <3>1. req'[r] = more
      BY <1>1, <1>3, <1>5, <2>2 DEF ReorderLoadItem, Continue, Slots
    <3> HIDE DEF k, loaded
    <3>2. req'[r] = [at |-> "reorder.load", ids |-> x.ids, places |-> x.places, loaded |-> loaded]
      BY <1>2, <3>1
    <3>3. ReorderCarries(req[r])'
      BY <1>1, <1>2, <2>1, <2>2, <3>2 DEF ReorderCarries, Payload, InReorder, Loaded
    <3> QED BY <1>1, <3>2, <3>3, ReordersOwn DEF InReorder
  <2>3. CASE k = Len(x.ids)
    <3>0. Continue(r, done)
      <4>1. \/ x.ids[k] \notin DOMAIN items
            \/ k < Len(x.ids)
            \/ Continue(r, done)
        BY DEF ReorderLoadItem
      <4> HIDE DEF done, k
      <4> QED BY <1>3, <1>5, <2>3, <4>1
    <3> HIDE DEF k, loaded, done
    <3>1. req'[r] = done
      BY <1>1, <3>0 DEF Continue, Slots
    <3> USE DEF done
    <3>2. /\ req'[r].at = "reorder.aside" /\ req'[r].ids = x.ids /\ req'[r].places = x.places
          /\ req'[r].loaded = loaded /\ req'[r].todo = Differing(loaded, AsideOf(x.ids))
          /\ DOMAIN req'[r].own = {}
      BY <3>1
    <3> HIDE DEF done
    <3>3. Payload(req[r])'
      BY <1>1, <1>2, <2>1, <3>2 DEF Payload
    <3>4. Moves(req[r])' /\ Covers(req[r])'
      <4>1. DOMAIN loaded = DOMAIN x.ids
        BY <1>2, <2>1, <2>3 DEF Payload
      <4>2. Differing(loaded, AsideOf(x.ids)) \subseteq DOMAIN x.ids
        BY <4>1 DEF Differing
      <4> QED BY <2>1, <2>3, <3>2, <4>1, <4>2 DEF Moves, Covers
    <3>5. ReorderCarries(req[r])'
      BY <3>2, <3>3, <3>4 DEF ReorderCarries, InReorder, Loaded
    <3> QED BY <1>1, <3>2, <3>5, ReordersOwn DEF InReorder
  <2>4. k < Len(x.ids) \/ k = Len(x.ids)
    BY <1>2, <1>3 DEF Payload
  <2> QED BY <2>2, <2>3, <2>4
<1> QED BY <1>4, <1>5

\* The flushes write the rows they name where they say.
LEMMA ReordersFlush ==
  ASSUME SetInv, NEW r \in Requests, ReorderPlace(r) \/ ReorderGone(r) \/ ReorderWrite(r)
  PROVE  ReordersInv'
<1> DEFINE x == req[r]
<1>1. /\ OnlySlot(r, SetLabels) /\ Slots /\ UNCHANGED <<items, created>> /\ Loaded(x)
      /\ created \in Nat
  BY SetSlot DEF SetHandler, ReorderStep, SetInv, KeysInv, ReorderPlace, ReorderGone, ReorderWrite,
     Reordering, Loaded, db
<1>2. /\ Payload(x) /\ Moves(x) /\ Covers(x) /\ InReorder(x)
      /\ x = [at |-> x.at, ids |-> x.ids, places |-> x.places, loaded |-> x.loaded,
              todo |-> x.todo, own |-> x.own, keys |-> x.keys]
  BY <1>1 DEF SetInv, ReordersInv, ReorderCarries, InReorder, Loaded, KeysInv, Reordering,
     ReorderFlush
<1>3. CASE req'[r] = Idle
  BY <1>1, <1>3, ReordersQuiet DEF Idle, InReorder, Inserting
<1>4. ASSUME Loaded(req'[r]), req'[r].ids = x.ids, req'[r].places = x.places,
             req'[r].loaded = x.loaded, Moves(req'[r]), Covers(req'[r])
      PROVE  ReordersInv'
  <2>1. InReorder(req'[r]) /\ req'[r].at # "reorder.load"
    BY <1>4 DEF Loaded, InReorder
  <2>2. Payload(req[r])' /\ Moves(req[r])' /\ Covers(req[r])'
    BY <1>1, <1>2, <1>4 DEF Payload, Moves, Covers
  <2>3. ReorderCarries(req[r])'
    BY <2>1, <2>2 DEF ReorderCarries
  <2> QED BY <1>1, <1>2, <1>4, <2>1, <2>3, ReordersOwn
<1>5. CASE ReorderPlace(r)
  <2>1. /\ x.at = "reorder.aside" /\ x.todo = {}
        /\ req'[r] = [x EXCEPT !.at = "reorder.place",
                               !.todo = Differing(AsideOf(x.ids), x.places)]
    BY <1>1, <1>5 DEF ReorderPlace, Continue, Slots
  <2>2. req'[r] = [at |-> "reorder.place", ids |-> x.ids, places |-> x.places, loaded |-> x.loaded,
                   todo |-> Differing(AsideOf(x.ids), x.places), own |-> x.own, keys |-> x.keys]
    BY <1>2, <2>1
  <2>3. Differing(AsideOf(x.ids), x.places) \subseteq DOMAIN x.ids
    BY DEF Differing, AsideOf
  <2>4. Moves(req'[r]) /\ Covers(req'[r])
    BY <1>2, <2>1, <2>2, <2>3 DEF Moves, Covers
  <2> QED BY <1>4, <2>2, <2>4 DEF Loaded
<1>6. CASE ReorderGone(r) /\ req'[r] # Idle
  <2>1. PICK k \in DOMAIN x.ids :
          x.ids[k] \notin DOMAIN items /\ req'[r] = [x EXCEPT !.todo = @ \ {k}]
    BY <1>1, <1>6 DEF ReorderGone, Continue, Return, Slots
  <2>2. req'[r] = [at |-> x.at, ids |-> x.ids, places |-> x.places, loaded |-> x.loaded,
                   todo |-> x.todo \ {k}, own |-> x.own, keys |-> x.keys]
    BY <1>2, <2>1
  <2>3. Moves(req'[r]) /\ Covers(req'[r])
    BY <1>2, <2>1, <2>2 DEF Moves, Covers
  <2> QED BY <1>1, <1>4, <2>2, <2>3 DEF Loaded
<1>7. CASE ReorderWrite(r) /\ req'[r] # Idle
  <2>1. PICK k \in DOMAIN x.ids :
          req'[r] = [x EXCEPT !.todo = @ \ {k}, !.keys = @ \cup {Target(x)[k]},
                              !.own = Updated(@, [j \in {x.ids[k]} |-> Target(x)[k]])]
    BY <1>1, <1>7 DEF ReorderWrite, Continue, Return, Slots
  <2> DEFINE own == Updated(x.own, [j \in {x.ids[k]} |-> Target(x)[k]])
  <2>2. req'[r] = [at |-> x.at, ids |-> x.ids, places |-> x.places, loaded |-> x.loaded,
                   todo |-> x.todo \ {k}, own |-> own, keys |-> x.keys \cup {Target(x)[k]}]
    BY <1>2, <2>1
  <2>3. /\ DOMAIN own = DOMAIN x.own \cup {x.ids[k]}
        /\ \A j \in DOMAIN own : own[j] = IF j = x.ids[k] THEN Target(x)[k] ELSE x.own[j]
    BY DEF Updated
  <2>4. Target(x)[k] = IF x.at = "reorder.aside" THEN Aside + k ELSE x.places[k]
    BY DEF Target, AsideOf
  <2> HIDE DEF own
  <2>5. /\ req'[r].at = x.at /\ req'[r].ids = x.ids /\ req'[r].places = x.places
        /\ req'[r].loaded = x.loaded /\ req'[r].own = own /\ req'[r].todo = x.todo \ {k}
    BY <2>2
  <2>6. \A n \in DOMAIN x.ids : x.ids[n] = x.ids[k] => n = k
    BY <1>2 DEF Payload
  <2>7. Moves(req'[r])
    <3>1. \A n \in DOMAIN x.ids :
            x.ids[n] \in DOMAIN own =>
              \/ own[x.ids[n]] = Aside + n
              \/ x.at = "reorder.place" /\ own[x.ids[n]] = x.places[n]
      BY <1>1, <1>2, <2>3, <2>4, <2>6 DEF Moves, Loaded
    <3> QED BY <1>2, <2>3, <2>5, <3>1 DEF Moves
  <2>8. Covers(req'[r])
    BY <1>2, <2>3, <2>5 DEF Covers
  <2> QED BY <1>1, <1>4, <2>5, <2>7, <2>8 DEF Loaded
<1> QED BY <1>3, <1>5, <1>6, <1>7

\* So does every step of the sets.
LEMMA ReordersStep ==
  ASSUME SetInv, NEW r \in Requests, SetHandler(r)
  PROVE  ReordersInv'
<1>1. OnlySlot(r, SetLabels) /\ Slots
  BY SetSlot DEF SetInv, KeysInv
<1>2. CASE ReorderAbort(r)
  BY <1>1, <1>2, ReordersQuiet DEF ReorderAbort, Return, Slots, db, Idle, InReorder, Inserting,
     SetInv, KeysInv
<1>3. CASE ReorderSave(r)
  <2>1. /\ req'[r] = Idle /\ UNCHANGED created /\ items' = Seen(r) /\ Reordering(r)
        /\ created \in Nat
    BY <1>1, <1>3 DEF ReorderSave, Return, Slots, Reordering, SetInv, KeysInv
  <2>2. DOMAIN items' = DOMAIN items
    BY <2>1, OwnRows, SeenRows DEF SetInv, KeysInv, ReorderFlush
  <2> QED BY <1>1, <2>1, <2>2, ReordersQuiet DEF Idle, InReorder, Inserting
<1> QED
  BY <1>2, <1>3, ReordersOther, ReordersLoad, ReordersLoadItem, ReordersFlush DEF ReorderStep

\* A step that keeps the room for the items that requests will insert.
LEMMA SetKept ==
  ASSUME SetInv, NEW r \in Requests, OnlySlot(r, SetLabels), KeysInv', ReordersInv',
         SetCarries(req[r])', RowsTyped',
         created' + Cardinality(Adders') <= MaxItems
  PROVE  SetInv'
<1>1. \A p \in Requests : SetCarries(req[p])'
  BY DEF SetInv, OnlySlot, SetCarries
<1>2. TypeOK'
  BY <1>1 DEF TypeOK, KeysInv, RowsTyped, SetCarries, Inserting
<1> QED BY <1>1, <1>2 DEF SetInv

\* A step that begins no insert leaves the bound.
LEMMA AddersKept ==
  ASSUME SetInv, NEW r \in Requests, OnlySlot(r, SetLabels), UNCHANGED created,
         r \in Adders' => r \in Adders
  PROVE  created' + Cardinality(Adders') <= MaxItems
<1>1. Adders' \subseteq Adders
  BY DEF Adders, OnlySlot
<1>2. IsFiniteSet(Adders) /\ IsFiniteSet(Adders')
  BY RequestsAssumption, FS_Subset DEF Adders
<1>3. /\ Cardinality(Adders') <= Cardinality(Adders)
      /\ Cardinality(Adders) \in Nat /\ Cardinality(Adders') \in Nat
  BY <1>1, <1>2, FS_Subset, FS_CardinalityType
<1> QED BY <1>3, SetsAssumption DEF SetInv, TypeOK

\* Beginning to add a question keeps the invariant.
LEMMA AddLoadSetType ==
  ASSUME SetInv, NEW r \in Requests, NEW q \in Questions, NEW order \in Orders \cup {Null},
         NEW override \in Marks \cup {Null}, AddLoadSet(r, q, order, override)
  PROVE  SetInv'
<1>0. OnlySlot(r, SetLabels) /\ KeysInv' /\ ReordersInv' /\ Slots
  BY SetSlot, KeysSetStep, ReordersStep DEF SetHandler, SetInv, KeysInv
<1>1. RowsTyped' /\ UNCHANGED db
  BY DEF AddLoadSet, db, SetInv, TypeOK, RowsTyped
<1>2. SetCarries(req[r])'
  BY <1>0 DEF AddLoadSet, Begin, Slots, SetCarries, SetInv, TypeOK
<1>3. created' + Cardinality(Adders') <= MaxItems
  <2>1. created + Cardinality(Adders) < MaxItems
    BY DEF AddLoadSet, RoomForItem, Adders
  <2>2. Adders' \subseteq Adders \cup {r}
    BY <1>0 DEF Adders, OnlySlot
  <2>3. IsFiniteSet(Adders) /\ IsFiniteSet(Adders')
    BY RequestsAssumption, FS_Subset DEF Adders
  <2>4. IsFiniteSet(Adders \cup {r}) /\ Cardinality(Adders \cup {r}) <= Cardinality(Adders) + 1
    <3>1. Cardinality(Adders) \in Nat
      BY <2>3, FS_CardinalityType
    <3>2. /\ IsFiniteSet(Adders \cup {r})
          /\ Cardinality(Adders \cup {r}) = IF r \in Adders THEN Cardinality(Adders)
                                            ELSE Cardinality(Adders) + 1
      BY <2>3, FS_AddElement
    <3> QED BY <3>1, <3>2
  <2>5. Cardinality(Adders') <= Cardinality(Adders \cup {r})
    BY <2>2, <2>4, FS_Subset
  <2>6. /\ Cardinality(Adders) \in Nat /\ Cardinality(Adders') \in Nat
        /\ Cardinality(Adders \cup {r}) \in Nat
    BY <2>3, <2>4, FS_CardinalityType
  <2> QED BY <1>1, <2>1, <2>4, <2>5, <2>6, SetsAssumption DEF RowsTyped, db
<1> QED BY <1>0, <1>1, <1>2, <1>3, SetKept

\* The other steps of an addition.
LEMMA AddRestType ==
  ASSUME SetInv, NEW r \in Requests, AddRest(r)
  PROVE  SetInv'
<1> DEFINE x == req[r]
<1>0. OnlySlot(r, SetLabels) /\ KeysInv' /\ ReordersInv' /\ Slots /\ SetCarries(x) /\ RowsTyped
  BY SetSlot, KeysSetStep, ReordersStep DEF SetHandler, SetInv, KeysInv, TypeOK, RowsTyped
<1>1. ASSUME AddLoadQuestion(r)
      PROVE  RowsTyped' /\ SetCarries(req[r])' /\ UNCHANGED created /\ r \in Adders
  BY <1>0, <1>1 DEF AddLoadQuestion, Continue, Slots, SetCarries, RowsTyped, db, Adders
<1>2. ASSUME AddLoadItems(r)
      PROVE  RowsTyped' /\ SetCarries(req[r])' /\ UNCHANGED created /\ r \in Adders
  <2>1. UNCHANGED db /\ r \in Adders /\ RowsTyped'
    BY <1>0, <1>2 DEF AddLoadItems, RowsTyped, db, Adders
  <2>2. CASE req'[r] = Idle
    BY <2>1, <2>2 DEF SetCarries, Idle, db
  <2>3. CASE req'[r] # Idle
    <3> DEFINE item == [q |-> x.q, override |-> x.override,
                        order |-> IF x.order = Null THEN NextOrder(items) ELSE x.order]
    <3>1. req'[r] = [at |-> "add.insert", seen |-> x.seen, q |-> x.q, known |-> x.known,
                     item |-> item]
      BY <1>0, <1>2, <2>3 DEF AddLoadItems, Continue, Return, Slots
    <3>2. NextOrder(items) \in Nat
      BY <1>0, ItemsFinite, NextOrderType DEF RowsTyped
    <3>3. item \in Item
      BY <1>0, <1>2, <3>2, SetsAssumption DEF AddLoadItems, SetCarries, Item
    <3> HIDE DEF item
    <3>4. x.q \in Questions /\ x.known \in Nat \ {0}
      BY <1>0, <1>2 DEF AddLoadItems, SetCarries
    <3> QED BY <2>1, <3>1, <3>3, <3>4 DEF SetCarries, db
  <2> QED BY <2>1, <2>2, <2>3 DEF db
<1>3. CASE AddInsert(r) /\ Conflicts(items, x.item)
  <2>1. RowsTyped' /\ SetCarries(req[r])' /\ UNCHANGED created /\ r \in Adders
    BY <1>0, <1>3 DEF AddInsert, Return, Idle, Slots, SetCarries, RowsTyped, db, Adders
  <2> QED BY <1>0, <2>1, AddersKept, SetKept
<1>4. CASE AddInsert(r) /\ ~Conflicts(items, x.item)
  <2>1. /\ created' = created + 1 /\ UNCHANGED <<questions, items, total, paper>>
        /\ req'[r] = [at |-> "add.recalculate", seen |-> x.seen, q |-> x.q,
                      known |-> x.known, id |-> created', item |-> x.item]
        /\ x.at = "add.insert"
    BY <1>0, <1>4 DEF AddInsert, Continue, Slots
  <2>2. SetCarries(req[r])'
    BY <1>0, <2>1 DEF SetCarries
  <2>3. Adders' = Adders \ {r} /\ r \in Adders
    BY <1>0, <2>1 DEF Adders, OnlySlot
  <2>4. IsFiniteSet(Adders)
    BY RequestsAssumption, FS_Subset DEF Adders
  <2>5. Cardinality(Adders') = Cardinality(Adders) - 1 /\ Cardinality(Adders) \in Nat \ {0}
    BY <2>3, <2>4, FS_RemoveElement, FS_CardinalityType, FS_EmptySet
  <2>6. created' + Cardinality(Adders') <= MaxItems
    BY <1>0, <2>1, <2>5, SetsAssumption DEF SetInv, RowsTyped
  <2>7. RowsTyped'
    BY <1>0, <2>1, <2>5, SetsAssumption DEF SetInv, RowsTyped
  <2> QED BY <1>0, <2>2, <2>6, <2>7, SetKept
<1>5. ASSUME AddRecalculate(r)
      PROVE  RowsTyped' /\ SetCarries(req[r])' /\ UNCHANGED created /\ r \notin Adders'
  <2>1. /\ x.q \in Questions /\ x.known \in Nat \ {0} /\ x.item \in Item
        /\ x.id \in 1 .. created
    BY <1>0, <1>5 DEF AddRecalculate, SetCarries, SetInv, KeysInv, Inserting
  <2>2. BankSeen(x) \in [Questions -> Nat \ {0}]
    BY <1>0, <2>1 DEF BankSeen, RowsTyped
  <2>3. /\ DOMAIN ItemsWithOwn(x) = DOMAIN items \cup {x.id}
        /\ \A i \in DOMAIN ItemsWithOwn(x) : ItemsWithOwn(x)[i] \in Item
    BY <1>0, <2>1 DEF ItemsWithOwn, WithRow, RowsTyped
  <2>4. IsFiniteSet(DOMAIN ItemsWithOwn(x))
    BY <2>3, ItemsFinite, FS_AddElement
  <2>5. SetTotal(ItemsWithOwn(x), BankSeen(x)) \in Nat
    BY <2>2, <2>3, <2>4, SetTotalType
  <2>6. /\ req'[r] = [at |-> "add.save", seen |-> x.seen, q |-> x.q, id |-> x.id, item |-> x.item,
                      total |-> SetTotal(ItemsWithOwn(x), BankSeen(x))]
        /\ UNCHANGED db
    BY <1>0, <1>5 DEF AddRecalculate, Continue, Slots
  <2> QED BY <1>0, <2>1, <2>5, <2>6 DEF SetCarries, RowsTyped, db, Adders
<1>6. ASSUME AddSave(r)
      PROVE  RowsTyped' /\ SetCarries(req[r])' /\ UNCHANGED created /\ r \notin Adders'
  <2>1. x.item \in Item /\ x.total \in Nat
    BY <1>0, <1>6 DEF AddSave, SetCarries
  <2>2. /\ req'[r] = Idle /\ UNCHANGED <<questions, created, paper>>
        /\ items' = WithRow(items, x.id, x.item) /\ total' \in {total, x.total}
    BY <1>0, <1>6 DEF AddSave, Return, Slots, Flushed
  <2> QED BY <1>0, <2>1, <2>2 DEF SetCarries, RowsTyped, Idle, WithRow, Adders
<1> QED
  BY <1>0, <1>1, <1>2, <1>3, <1>4, <1>5, <1>6, AddersKept, SetKept DEF AddRest

\* Removing a question keeps it.
LEMMA RemoveStepType ==
  ASSUME SetInv, NEW r \in Requests, RemoveStep(r)
  PROVE  SetInv'
<1> DEFINE x == req[r]
<1>0. OnlySlot(r, SetLabels) /\ KeysInv' /\ ReordersInv' /\ Slots /\ SetCarries(x) /\ RowsTyped
  BY SetSlot, KeysSetStep, ReordersStep DEF SetHandler, SetInv, KeysInv, TypeOK, RowsTyped
<1> DEFINE Goal == RowsTyped' /\ SetCarries(req[r])' /\ UNCHANGED created /\ r \notin Adders'
<1>1. ASSUME NEW id, RemoveLoadSet(r, id) PROVE Goal
  BY <1>0, <1>1 DEF RemoveLoadSet, Begin, Slots, SetCarries, RowsTyped, db, Adders
<1>2. ASSUME RemoveLoadItem(r) PROVE Goal
  <2>1. CASE req'[r] = Idle
    BY <1>0, <1>2, <2>1 DEF RemoveLoadItem, SetCarries, RowsTyped, db, Adders, Idle
  <2>2. CASE req'[r] # Idle
    <3>1. /\ UNCHANGED db /\ x.id \in DOMAIN items
          /\ req'[r] = [at |-> "remove.delete", seen |-> x.seen, id |-> x.id,
                        q |-> items[x.id].q, known |-> questions[items[x.id].q]]
      BY <1>0, <1>2, <2>2 DEF RemoveLoadItem, Continue, Return, Slots
    <3>2. items[x.id].q \in Questions
      BY <1>0, <3>1 DEF RowsTyped, Item
    <3>3. questions[items[x.id].q] \in Nat \ {0}
      BY <1>0, <3>2 DEF RowsTyped
    <3> QED BY <1>0, <3>1, <3>2, <3>3 DEF SetCarries, RowsTyped, db, Adders
  <2> QED BY <2>1, <2>2
<1>3. ASSUME RemoveDelete(r) PROVE Goal
  BY <1>0, <1>3 DEF RemoveDelete, Continue, Slots, SetCarries, RowsTyped, db, Adders
<1>4. ASSUME RemoveRecalculate(r) PROVE Goal
  <2>1. x.q \in Questions /\ x.known \in Nat \ {0}
    BY <1>0, <1>4 DEF RemoveRecalculate, SetCarries
  <2>2. BankSeen(x) \in [Questions -> Nat \ {0}]
    BY <1>0, <2>1 DEF BankSeen, RowsTyped
  <2>3. /\ DOMAIN Without(items, x.id) \subseteq DOMAIN items
        /\ \A i \in DOMAIN Without(items, x.id) : Without(items, x.id)[i] \in Item
    BY <1>0 DEF Without, Restrict, RowsTyped
  <2>4. IsFiniteSet(DOMAIN Without(items, x.id))
    BY <2>3, ItemsFinite, FS_Subset
  <2>5. SetTotal(Without(items, x.id), BankSeen(x)) \in Nat
    BY <2>2, <2>3, <2>4, SetTotalType
  <2>6. /\ req'[r] = [at |-> "remove.save", seen |-> x.seen, id |-> x.id,
                      total |-> SetTotal(Without(items, x.id), BankSeen(x))]
        /\ UNCHANGED db
    BY <1>0, <1>4 DEF RemoveRecalculate, Continue, Slots
  <2> QED BY <1>0, <2>5, <2>6 DEF SetCarries, RowsTyped, db, Adders
<1>5. ASSUME RemoveSave(r) PROVE Goal
  <2>1. /\ req'[r] = Idle /\ UNCHANGED <<questions, created, paper>> /\ x.total \in Nat
        /\ items' = Without(items, x.id) /\ total' \in {total, x.total}
    BY <1>0, <1>5 DEF RemoveSave, Return, Slots, Flushed, SetCarries
  <2> QED BY <1>0, <2>1 DEF SetCarries, RowsTyped, Idle, Without, Restrict, Adders
<1> QED
  BY <1>0, <1>1, <1>2, <1>3, <1>4, <1>5, AddersKept, SetKept DEF RemoveStep

\* So do editing a question, reordering the set and drawing up a paper.
LEMMA OtherSetStepType ==
  ASSUME SetInv, NEW r \in Requests, QuestionStep(r) \/ ReorderStep(r) \/ PaperStep(r)
  PROVE  SetInv'
<1> DEFINE x == req[r]
<1>0. OnlySlot(r, SetLabels) /\ KeysInv' /\ ReordersInv' /\ Slots /\ SetCarries(x) /\ RowsTyped
  BY SetSlot, KeysSetStep, ReordersStep DEF SetHandler, SetInv, KeysInv, TypeOK, RowsTyped
<1> DEFINE Goal == RowsTyped' /\ SetCarries(req[r])' /\ UNCHANGED created /\ r \notin Adders'
<1>1. ASSUME NEW q \in Questions, NEW marks \in Marks, UpdateLoad(r, q, marks) PROVE Goal
  BY <1>0, <1>1 DEF UpdateLoad, Begin, Slots, SetCarries, RowsTyped, db, Adders
<1>2. ASSUME UpdateSave(r) PROVE Goal
  <2>1. /\ x.q \in Questions /\ x.marks \in Nat \ {0}
        /\ UNCHANGED <<items, total, created, paper>> /\ req'[r] = Idle
    BY <1>0, <1>2, SetsAssumption DEF UpdateSave, Return, Slots, SetCarries
  <2>2. questions' \in [Questions -> Nat \ {0}]
    BY <1>0, <1>2, <2>1 DEF UpdateSave, Flushed, RowsTyped
  <2> QED BY <1>0, <2>1, <2>2 DEF SetCarries, RowsTyped, Idle, Adders
<1>3. ASSUME ReorderStep(r), ~ReorderSave(r) PROVE Goal
  <2>1. UNCHANGED db
    BY <1>3 DEF ReorderStep, ReorderLoad, ReorderLoadItem, ReorderPlace, ReorderGone, ReorderWrite,
       ReorderAbort
  <2>2. req'[r].at \in {"idle", "reorder.load", "reorder.aside", "reorder.place"}
    BY <1>0, <1>3, ReorderSlot DEF OnlySlot, ReorderLabels
  <2>3. RowsTyped' /\ UNCHANGED created /\ r \notin Adders'
    BY <1>0, <2>1, <2>2 DEF RowsTyped, db, Adders
  <2> QED BY <2>2, <2>3 DEF SetCarries
<1>4. ASSUME ReorderSave(r) PROVE Goal
  <2>1. /\ req'[r] = Idle /\ UNCHANGED <<questions, total, created, paper>>
        /\ items' = Seen(r) /\ Reordering(r) /\ Loaded(x)
    BY <1>0, <1>4 DEF ReorderSave, Return, Slots, Reordering, Loaded
  <2>2. /\ DOMAIN x.own \subseteq DOMAIN items
        /\ \A i \in DOMAIN x.own : x.own[i] \in Nat
    <3>1. Payload(x) /\ Moves(x)
      BY <2>1 DEF SetInv, ReordersInv, ReorderCarries, Loaded, InReorder
    <3>2. ASSUME NEW i \in DOMAIN x.own PROVE x.own[i] \in Nat
      <4>1. PICK n \in DOMAIN x.ids : x.ids[n] = i
        BY <3>1 DEF Moves
      <4>2. n \in DOMAIN x.places /\ n \in Nat
        BY <3>1, <4>1 DEF Payload
      <4>3. x.places[n] \in Nat /\ Aside \in Nat
        BY <3>1, <4>2, SetsAssumption DEF Payload
      <4> QED BY <3>1, <4>1, <4>2, <4>3 DEF Moves
    <3> QED BY <2>1, <3>2 DEF SetInv, KeysInv, ReorderFlush
  <2>3. \A i \in DOMAIN items' : items'[i] \in Item
    <3>1. ~Inserting(r)
      BY <2>1 DEF Reordering, Inserting
    <3>2. \A i \in DOMAIN Own(r) : Own(r)[i] \in Item
      BY <1>0, <2>1, <2>2, <3>1 DEF Own, RowsTyped, Item
    <3>3. \A i \in DOMAIN items' : items'[i] = IF i \in DOMAIN Own(r) THEN Own(r)[i] ELSE items[i]
      BY <2>1, SeenRows
    <3> QED BY <1>0, <2>1, <2>2, <3>2, <3>3, SeenRows, OwnRows DEF RowsTyped
  <2> QED BY <1>0, <2>1, <2>3 DEF SetCarries, RowsTyped, Idle, Adders
<1>5. ASSUME PaperLoadSet(r) PROVE Goal
  BY <1>0, <1>5 DEF PaperLoadSet, Begin, Slots, SetCarries, RowsTyped, db, Adders
<1>6. ASSUME PaperLoadItems(r) PROVE Goal
  BY <1>0, <1>6, ItemsFinite DEF PaperLoadItems, Continue, Return, Idle, Slots, SetCarries,
     RowsTyped, db, Adders
<1>7. ASSUME PaperLoadQuestions(r) PROVE Goal
  <2> DEFINE made == [total |-> x.total, marks |-> PaperMarks(x.items)]
  <2>1. /\ x.total \in Nat /\ DOMAIN x.items \subseteq ItemIds
        /\ \A i \in DOMAIN x.items : Worth(x.items[i], questions) \in Nat
    BY <1>0, <1>7, WorthType DEF PaperLoadQuestions, SetCarries, RowsTyped
  <2>2. IsPaper(made)
    BY <2>1 DEF IsPaper, PaperMarks, Range
  <2>3. req'[r] = [at |-> "paper.save", paper |-> made] /\ UNCHANGED db
    BY <1>0, <1>7 DEF PaperLoadQuestions, Continue, Slots
  <2> HIDE DEF made
  <2> QED BY <1>0, <2>2, <2>3 DEF SetCarries, RowsTyped, db, Adders
<1>8. ASSUME PaperSave(r) PROVE Goal
  BY <1>0, <1>8 DEF PaperSave, Return, Idle, Slots, SetCarries, RowsTyped, Adders
<1>9. Goal => SetInv'
  BY <1>0, AddersKept, SetKept
<1> HIDE DEF Goal
<1> QED
  BY <1>1, <1>2, <1>3, <1>4, <1>5, <1>6, <1>7, <1>8, <1>9 DEF QuestionStep, PaperStep

\* Every step keeps the invariant.
LEMMA SetInvStep ==
  ASSUME SetInv, [AuthoringNext]_authoringVars
  PROVE  SetInv'
<1>0. KeysInv' /\ Slots
  BY KeysStep DEF SetInv, KeysInv
<1>1. ASSUME NEW r \in Requests, SetStep(r) PROVE SetInv'
  BY <1>1, SetHandlers, AddLoadSetType, AddRestType, RemoveStepType, OtherSetStepType
     DEF SetHandler
<1>2. ASSUME NEW r \in Requests, OnlySlot(r, LibraryLabels) \/ OnlySlot(r, {"window.save"}),
             UNCHANGED db
      PROVE  SetInv'
  <2>1. /\ SetCarries(req[r])' /\ ~Inserting(r) /\ ~Inserting(r)'
        /\ \A p \in Requests \ {r} : req'[p] = req[p]
    BY <1>2 DEF OnlySlot, LibraryLabels, SetCarries, Inserting
  <2>2. \A p \in Requests : SetCarries(req[p])'
    BY <2>1 DEF SetInv, SetCarries
  <2>3. Adders' = Adders
    BY <1>2, <2>1 DEF Adders, OnlySlot, LibraryLabels
  <2>4. TypeOK'
    BY <1>2, <2>1 DEF SetInv, TypeOK, Inserting, db
  <2>5. ReordersInv'
    <3>1. ~InReorder(req'[r]) /\ UNCHANGED <<items, created>> /\ created \in Nat
      BY <1>2 DEF OnlySlot, LibraryLabels, InReorder, db, SetInv, KeysInv
    <3> QED BY <1>2, <2>1, <3>1, ReordersQuiet
  <2> QED BY <1>0, <1>2, <2>2, <2>3, <2>4, <2>5 DEF SetInv, db
<1>3. CASE UNCHANGED authoringVars
  <2>1. UNCHANGED <<questions, items, total, created, paper, req>>
    BY <1>3 DEF authoringVars, db
  <2>2. ReordersInv'
    BY <2>1 DEF SetInv, ReordersInv, ReorderCarries, Payload, Moves, Covers, InReorder, Loaded,
       Inserting
  <2> QED BY <1>0, <2>1, <2>2 DEF SetInv, TypeOK, Inserting, Adders, SetCarries
<1> QED
  BY <1>0, <1>1, <1>2, <1>3, LibrarySlot, WindowSlot DEF AuthoringNext

\* Rows have their columns' types, with any number of requests in flight: what is
\* stored of a set, of the bank, of its jobs and of the assessment.
THEOREM AuthoringTypeCorrect == AuthoringSpec => []AuthoringTypeOK
<1>1. SetInv => TypeOK
  BY DEF SetInv
<1>2. AuthoringSpec => []TypeOK
  BY <1>1, SetInit, SetInvStep, PTL DEF AuthoringSpec
<1> QED BY <1>2, BankTypeCorrect, WindowTypeCorrect, PTL DEF AuthoringTypeOK

-----------------------------------------------------------------------------
(* Why a reorder fails.                                                       *)

\* What a step that fails a reorder shows.
FailsForCause ==
  \A r \in Requests :
    Reordering(r) /\ req[r].todo # {} /\ req'[r] = Idle => CauseToFail(r)

\* A position that is taken is one that the payload names twice, one of an item that it
\* does not name, or one beyond Aside: by then the items it names have left theirs.
LEMMA TakenForCause ==
  ASSUME SetInv, NEW r \in Requests, Reordering(r), NEW k \in req[r].todo,
         req[r].ids[k] \in DOMAIN items, NEW j \in DOMAIN items \ {req[r].ids[k]},
         Seen(r)[j].order = Target(req[r])[k]
  PROVE  CauseToFail(r)
<1> DEFINE x == req[r]
<1>1. SUFFICES ASSUME ~CauseToFail(r) PROVE FALSE
  OBVIOUS
<1>2. Payload(x) /\ Moves(x) /\ Covers(x) /\ DOMAIN x.own \subseteq DOMAIN items
  BY DEF SetInv, ReordersInv, ReorderCarries, InReorder, Loaded, Reordering, KeysInv, ReorderFlush
<1>3. /\ k \in DOMAIN x.ids /\ k \in DOMAIN x.places /\ k \in Nat /\ 1 <= k /\ Aside \in Nat
      /\ DOMAIN x.ids \subseteq Nat \ {0} /\ DOMAIN x.loaded = DOMAIN x.ids
      /\ DOMAIN x.places = DOMAIN x.ids /\ x.places[k] \in Nat
  <2>1. /\ x.ids \in Seq(Nat) /\ x.places \in Seq(Nat) /\ x.loaded \in Seq(Nat)
        /\ Len(x.places) = Len(x.ids) /\ Len(x.loaded) = Len(x.ids) /\ k \in DOMAIN x.ids
    BY <1>2 DEF Payload, Moves
  <2>2. Aside \in Nat
    BY SetsAssumption
  <2>3. DOMAIN x.ids = 1 .. Len(x.ids) /\ DOMAIN x.places = 1 .. Len(x.places)
        /\ DOMAIN x.loaded = 1 .. Len(x.loaded) /\ Len(x.ids) \in Nat
    BY <2>1
  <2>4. DOMAIN x.places = DOMAIN x.ids /\ DOMAIN x.loaded = DOMAIN x.ids
    BY <2>1, <2>3
  <2>5. DOMAIN x.ids \subseteq Nat \ {0}
    BY <2>3
  <2>6. k \in Nat /\ 1 <= k
    BY <2>1, <2>5
  <2>7. x.places[k] \in Nat
    BY <2>1, <2>4
  <2> QED BY <2>1, <2>2, <2>4, <2>5, <2>6, <2>7
<1>4. /\ \A n, m \in DOMAIN x.places : x.places[n] = x.places[m] => n = m
      /\ \A i \in DOMAIN items : (\A n \in DOMAIN x.ids : x.ids[n] # i) =>
           \A n \in DOMAIN x.places : items[i].order # x.places[n]
      /\ \A n \in DOMAIN x.places : ~(x.places[n] > Aside)
      /\ \A n \in DOMAIN x.loaded : ~(x.loaded[n] > Aside)
      /\ \A i \in DOMAIN items : ~(items[i].order > Aside)
  <2>1. /\ IsInjective(x.places)
        /\ ~\E i \in DOMAIN items \ Range(x.ids) : items[i].order \in Range(x.places)
        /\ \A order \in Range(x.places) \cup Range(x.loaded)
                       \cup {items[i].order : i \in DOMAIN items} : ~(order > Aside)
    BY <1>1 DEF CauseToFail
  <2>2. \A n \in DOMAIN x.places : x.places[n] \in Range(x.places)
    BY DEF Range
  <2>3. \A n \in DOMAIN x.loaded : x.loaded[n] \in Range(x.loaded)
    BY DEF Range
  <2>4. \A i : (\A n \in DOMAIN x.ids : x.ids[n] # i) => i \notin Range(x.ids)
    BY DEF Range
  <2>5. \A n, m \in DOMAIN x.places : x.places[n] = x.places[m] => n = m
    BY <2>1 DEF IsInjective
  <2> QED BY <2>1, <2>2, <2>3, <2>4, <2>5
<1>5. Target(x)[k] = IF x.at = "reorder.aside" THEN Aside + k ELSE x.places[k]
  BY <1>3 DEF Target, AsideOf
<1>6. /\ j \in DOMAIN Own(r) <=> j \in DOMAIN x.own
      /\ Seen(r)[j].order = IF j \in DOMAIN x.own THEN x.own[j] ELSE items[j].order
  <2>1. /\ DOMAIN Own(r) = DOMAIN x.own
        /\ \A i \in DOMAIN Own(r) : Own(r)[i].order = x.own[i]
    BY OwnRows
  <2>2. j \in DOMAIN Seen(r)
    BY SeenRows
  <2>3. Seen(r)[j] = IF j \in DOMAIN Own(r) THEN Own(r)[j] ELSE items[j]
    BY <2>2, SeenRows
  <2> QED BY <2>1, <2>3
<1>7. CASE j \in DOMAIN x.own
  <2>1. PICK n \in DOMAIN x.ids : x.ids[n] = j
    BY <1>2, <1>7 DEF Moves
  <2>2. n # k /\ n \in Nat
    BY <1>3, <2>1
  <2>3. \/ x.own[j] = Aside + n
        \/ x.at = "reorder.place" /\ x.own[j] = x.places[n]
    BY <1>2, <1>7, <2>1 DEF Moves
  <2>4. Aside + n > Aside /\ Aside + n # Aside + k
    BY <1>3, <2>1, <2>2
  <2>5. ~(x.places[k] > Aside) /\ x.places[n] # x.places[k]
    BY <1>3, <1>4, <2>1, <2>2
  <2>6. x.own[j] = Target(x)[k]
    BY <1>6, <1>7
  <2>7. CASE x.at = "reorder.aside"
    BY <1>5, <2>3, <2>4, <2>6, <2>7
  <2>8. CASE x.at = "reorder.place"
    BY <1>5, <2>3, <2>4, <2>5, <2>6, <2>8
  <2> QED BY <2>7, <2>8 DEF Reordering
<1>8. CASE j \notin DOMAIN x.own
  <2>1. items[j].order = Target(x)[k] /\ ~(items[j].order > Aside)
    BY <1>4, <1>6, <1>8
  <2>2. Aside + k > Aside
    BY <1>3
  <2>3. x.at = "reorder.place" /\ items[j].order = x.places[k]
    BY <1>5, <2>1, <2>2 DEF Reordering
  <2>4. PICK n \in DOMAIN x.ids : x.ids[n] = j
    BY <1>3, <1>4, <2>3
  <2>5. n \notin Differing(x.loaded, AsideOf(x.ids))
    BY <1>2, <1>8, <2>3, <2>4 DEF Covers
  <2>6. x.loaded[n] = Aside + n
    BY <1>3, <2>4, <2>5 DEF Differing, AsideOf
  <2>7. Aside + n > Aside
    BY <1>3, <2>4
  <2> QED BY <1>3, <1>4, <2>4, <2>6, <2>7
<1> QED BY <1>7, <1>8

\* A reorder's own step that fails it.
LEMMA ReorderFails ==
  ASSUME SetInv, NEW r \in Requests, Reordering(r), req[r].todo # {}, req'[r] = Idle,
         SetHandler(r)
  PROVE  CauseToFail(r)
<1> DEFINE x == req[r]
<1>1. x.at \in {"reorder.aside", "reorder.place"} /\ x # Idle
  BY DEF Reordering, Idle
<1>2. ReorderGone(r) \/ ReorderWrite(r) \/ ReorderAbort(r)
  BY <1>1 DEF SetHandler, AddLoadSet, AddRest, AddLoadQuestion, AddLoadItems, AddInsert,
     AddRecalculate, AddSave, RemoveStep, RemoveLoadSet, RemoveLoadItem, RemoveDelete,
     RemoveRecalculate, RemoveSave, QuestionStep, UpdateLoad, UpdateSave, PaperStep, PaperLoadSet,
     PaperLoadItems, PaperLoadQuestions, PaperSave, ReorderStep, ReorderLoad, ReorderLoadItem,
     ReorderPlace, ReorderSave, Begin
<1>3. CASE ReorderGone(r)
  BY <1>3 DEF ReorderGone, CauseToFail, Range
<1>4. CASE ReorderAbort(r)
  BY <1>4 DEF ReorderAbort, CauseToFail
<1>5. CASE ReorderWrite(r)
  <2>0. Slots
    BY DEF SetInv, KeysInv
  <2>1. PICK k \in DOMAIN x.ids :
          /\ NextRow(x, k) /\ x.ids[k] \in DOMAIN items
          /\ \/ \E j \in DOMAIN items \ {x.ids[k]} : Seen(r)[j].order = Target(x)[k]
             \/ Continue(r, [x EXCEPT !.todo = @ \ {k}, !.keys = @ \cup {Target(x)[k]},
                                      !.own = Updated(@, [j \in {x.ids[k]} |-> Target(x)[k]])])
    BY <1>5 DEF ReorderWrite
  <2>2. CASE \E j \in DOMAIN items \ {x.ids[k]} : Seen(r)[j].order = Target(x)[k]
    BY <2>1, <2>2, TakenForCause DEF NextRow
  <2>3. ASSUME NEW y, y = [x EXCEPT !.todo = @ \ {k}, !.keys = @ \cup {Target(x)[k]},
                                    !.own = Updated(@, [j \in {x.ids[k]} |-> Target(x)[k]])],
               Continue(r, y)
        PROVE  FALSE
    <3>1. y.at = x.at /\ req'[r] = y
      BY <2>0, <2>3 DEF Continue, Slots
    <3> QED BY <1>1, <3>1 DEF Idle
  <2> QED BY <2>1, <2>2, <2>3
<1> QED BY <1>2, <1>3, <1>4, <1>5

\* Every step does this.
LEMMA FailsForCauseStep ==
  ASSUME SetInv, [AuthoringNext]_authoringVars
  PROVE  FailsForCause
<1> SUFFICES ASSUME NEW r \in Requests, Reordering(r), req[r].todo # {}, req'[r] = Idle
             PROVE  CauseToFail(r)
  BY DEF FailsForCause
<1>1. req[r].at \in {"reorder.aside", "reorder.place"} /\ req[r] # Idle /\ Slots
  BY DEF Reordering, Idle, SetInv, KeysInv
<1>2. ASSUME NEW p \in Requests, SetStep(p) PROVE CauseToFail(r)
  <2>1. SetHandler(p) /\ OnlySlot(p, SetLabels)
    BY <1>1, <1>2, SetHandlers, SetSlot
  <2>2. p = r
    BY <1>1, <2>1 DEF OnlySlot
  <2> QED BY <2>1, <2>2, ReorderFails
<1>3. ASSUME NEW p \in Requests, OnlySlot(p, LibraryLabels) \/ OnlySlot(p, {"window.save"})
      PROVE  FALSE
  BY <1>1, <1>3 DEF OnlySlot, LibraryLabels, Idle
<1>4. CASE UNCHANGED authoringVars
  BY <1>1, <1>4 DEF authoringVars
<1> QED BY <1>1, <1>2, <1>3, <1>4, LibrarySlot, WindowSlot DEF AuthoringNext

\* While it writes, and with any number of requests in flight, a reorder fails only in a
\* circle of waits, over an item that is gone, over a position that its payload names
\* twice or takes from an item it does not name, or over positions beyond Aside.
THEOREM ReordersFailForCauseCorrect == AuthoringSpec => ReordersFailForCause
<1>1. SetInv /\ [AuthoringNext]_authoringVars => FailsForCause
  BY FailsForCauseStep
<1> QED BY <1>1, SetInit, SetInvStep, PTL DEF AuthoringSpec, ReordersFailForCause, FailsForCause

-----------------------------------------------------------------------------
(* The set's total, with one request at a time: what a request has loaded is     *)
(* what is stored, and the total it is about to store is that of its items.      *)

\* A request that is alone finds the set as it loaded it, and its total is the
\* items'.
SetCurrent(x) ==
  /\ x.at \in {"add.question", "add.item", "add.insert", "add.recalculate", "add.save",
               "remove.item", "remove.delete", "remove.recalculate", "remove.save"}
       => x.seen = total
  /\ x.at \in {"add.item", "add.insert", "add.recalculate", "remove.delete",
               "remove.recalculate"} => x.known = questions[x.q]
  /\ x.at = "add.save" => x.total = SetTotal(ItemsWithOwn(x), questions)
  /\ x.at = "remove.save" => x.total = SetTotal(Without(items, x.id), questions)
  /\ x.at \in {"paper.items", "paper.questions"} => x.total = total
  /\ x.at = "paper.questions" => x.items = items
  /\ x.at = "paper.save" => x.paper.total = total /\ x.paper.marks = PaperMarks(items)

\* The invariant of the requests taken one at a time.
TotalsInv == OneAtATime => \A r \in Requests : SetCurrent(req[r])

\* No request is in flight in the beginning.
LEMMA TotalsInit == AuthoringInit => TotalsInv
BY DEF AuthoringInit, Init, InitRequests, Idle, Unused, TotalsInv, SetCurrent

\* Nobody else is in flight.
LEMMA TotalsAlone ==
  ASSUME NEW r \in Requests, NEW labels, OnlySlot(r, labels), "unused" \notin labels,
         TotalsInv, OneAtATime /\ SetCurrent(req[r]) => SetCurrent(req[r])'
  PROVE  TotalsInv'
<1> SUFFICES ASSUME OneAtATime' PROVE \A p \in Requests : SetCurrent(req[p])'
  BY DEF TotalsInv
<1>1. OneAtATime /\ \A p \in Requests \ {r} : req[p]' = Unused
  BY OneSlot
<1>2. SetCurrent(req[r])'
  BY <1>1 DEF TotalsInv
<1> QED BY <1>1, <1>2 DEF SetCurrent, Unused

\* The marks that a session sees are the ones that are stored.
LEMMA BankSeenCurrent ==
  ASSUME SetInv, NEW x, x.q \in Questions, x.known = questions[x.q]
  PROVE  BankSeen(x) = questions
BY DEF BankSeen, SetInv, TypeOK

\* Adding a question that is alone writes the total of the items.
LEMMA AddTotals ==
  ASSUME SetInv, NEW r \in Requests, AddRest(r), SetCurrent(req[r])
  PROVE  /\ SetCurrent(req[r])'
         /\ DOMAIN items' # DOMAIN items => total' = SetTotal(items', questions')
         /\ UNCHANGED paper
<1> DEFINE x == req[r]
<1>0. Slots /\ SetCarries(x)
  BY DEF SetInv, KeysInv
<1> USE DEF Continue, Return, Slots, Idle, db
<1>1. CASE AddLoadQuestion(r) \/ AddLoadItems(r) \/ AddInsert(r)
  BY <1>0, <1>1 DEF AddLoadQuestion, AddLoadItems, AddInsert, SetCurrent
<1>2. CASE AddRecalculate(r)
  <2>1. BankSeen(x) = questions
    BY <1>0, <1>2, BankSeenCurrent DEF AddRecalculate, SetCarries, SetCurrent
  <2>2. /\ req'[r] = [at |-> "add.save", seen |-> x.seen, q |-> x.q, id |-> x.id, item |-> x.item,
                      total |-> SetTotal(ItemsWithOwn(x), BankSeen(x))]
        /\ UNCHANGED <<questions, items, total, paper>> /\ x.seen = total
    BY <1>0, <1>2 DEF AddRecalculate, SetCurrent
  <2>3. ItemsWithOwn(req[r])' = ItemsWithOwn(x)
    BY <2>2 DEF ItemsWithOwn
  <2> QED BY <2>1, <2>2, <2>3 DEF SetCurrent
<1>3. CASE AddSave(r)
  <2>1. /\ x.seen = total /\ x.total = SetTotal(ItemsWithOwn(x), questions)
        /\ items' = ItemsWithOwn(x) /\ UNCHANGED <<questions, paper>>
        /\ total' = Flushed(total, x.seen, x.total) /\ req'[r] = Idle
    BY <1>0, <1>3 DEF AddSave, SetCurrent, ItemsWithOwn
  <2> QED BY <2>1 DEF Flushed, SetCurrent
<1> QED BY <1>1, <1>2, <1>3 DEF AddRest

\* So does removing one.
LEMMA RemoveTotals ==
  ASSUME SetInv, NEW r \in Requests, RemoveStep(r), SetCurrent(req[r])
  PROVE  /\ SetCurrent(req[r])'
         /\ DOMAIN items' # DOMAIN items => total' = SetTotal(items', questions')
         /\ UNCHANGED paper
<1> DEFINE x == req[r]
<1>0. Slots /\ SetCarries(x)
  BY DEF SetInv, KeysInv
<1> USE DEF Begin, Continue, Return, Slots, Idle, db
<1>1. ASSUME NEW id, RemoveLoadSet(r, id)
      PROVE  SetCurrent(req[r])' /\ UNCHANGED <<items, paper>>
  BY <1>0, <1>1 DEF RemoveLoadSet, SetCurrent
<1>2. CASE RemoveLoadItem(r) \/ RemoveDelete(r)
  BY <1>0, <1>2 DEF RemoveLoadItem, RemoveDelete, SetCurrent
<1>3. CASE RemoveRecalculate(r)
  <2>1. BankSeen(x) = questions
    BY <1>0, <1>3, BankSeenCurrent DEF RemoveRecalculate, SetCarries, SetCurrent
  <2>2. /\ req'[r] = [at |-> "remove.save", seen |-> x.seen, id |-> x.id,
                      total |-> SetTotal(Without(items, x.id), BankSeen(x))]
        /\ UNCHANGED <<questions, items, total, paper>> /\ x.seen = total
    BY <1>0, <1>3 DEF RemoveRecalculate, SetCurrent
  <2> QED BY <2>1, <2>2 DEF SetCurrent
<1>4. CASE RemoveSave(r)
  <2>1. /\ x.seen = total /\ x.total = SetTotal(Without(items, x.id), questions)
        /\ items' = Without(items, x.id) /\ UNCHANGED <<questions, paper>>
        /\ total' = Flushed(total, x.seen, x.total) /\ req'[r] = Idle
    BY <1>0, <1>4 DEF RemoveSave, SetCurrent
  <2> QED BY <2>1 DEF Flushed, SetCurrent
<1> QED BY <1>1, <1>2, <1>3, <1>4 DEF RemoveStep

\* A paper that is drawn up alone takes the set's total and its items' marks.
LEMMA PaperTotals ==
  ASSUME SetInv, NEW r \in Requests, PaperStep(r), SetCurrent(req[r])
  PROVE  /\ SetCurrent(req[r])' /\ UNCHANGED items
         /\ paper' # paper => paper'.total = total /\ paper'.marks = PaperMarks(items)
<1>0. Slots
  BY DEF SetInv, KeysInv
<1> QED
  BY <1>0 DEF PaperStep, PaperLoadSet, PaperLoadItems, PaperLoadQuestions, PaperSave, Begin,
     Continue, Return, Slots, Idle, db, SetCurrent, PaperMarks

\* The other handlers change neither the set's items nor the paper.
LEMMA OtherTotals ==
  ASSUME SetInv, NEW r \in Requests, SetHandler(r),
         ~AddRest(r), ~RemoveStep(r), ~PaperStep(r)
  PROVE  SetCurrent(req[r])' /\ DOMAIN items' = DOMAIN items /\ UNCHANGED paper
<1>0. Slots
  BY DEF SetInv, KeysInv
<1> USE DEF Begin, Return, Slots, Idle, db, SetCurrent
<1>1. ASSUME NEW q, NEW order, NEW override, AddLoadSet(r, q, order, override)
      PROVE  SetCurrent(req[r])' /\ UNCHANGED <<items, paper>>
  BY <1>0, <1>1 DEF AddLoadSet
<1>2. ASSUME QuestionStep(r) PROVE SetCurrent(req[r])' /\ UNCHANGED <<items, paper>>
  BY <1>0, <1>2 DEF QuestionStep, UpdateLoad, UpdateSave
<1>3. ASSUME ReorderStep(r)
      PROVE  SetCurrent(req[r])' /\ DOMAIN items' = DOMAIN items /\ UNCHANGED paper
  <2>1. SetCurrent(req[r])'
    BY <1>0, <1>3, ReorderSlot DEF OnlySlot, ReorderLabels
  <2>2. CASE ReorderSave(r)
    <3>1. items' = Seen(r) /\ Reordering(r) /\ UNCHANGED paper
      BY <2>2 DEF ReorderSave, Reordering
    <3> QED BY <2>1, <3>1, OwnRows, SeenRows DEF SetInv, KeysInv, ReorderFlush
  <2>3. CASE ~ReorderSave(r)
    BY <1>3, <2>1, <2>3 DEF ReorderStep, ReorderLoad, ReorderLoadItem, ReorderPlace, ReorderGone,
       ReorderWrite, ReorderAbort
  <2> QED BY <2>2, <2>3
<1> QED BY <1>1, <1>2, <1>3 DEF SetHandler

\* What a change of the items, and a new paper, do to the totals.
RecalculatedStep ==
  OneAtATime /\ DOMAIN items' # DOMAIN items => total' = SetTotal(items', questions')

PaperStepAddsUp ==
  OneAtATime /\ paper' # paper /\ total = SetTotal(items, questions)
    => paper'.total = total /\ SumFunction(paper'.marks) = paper'.total

\* Every step does this, and keeps the invariant.
LEMMA TotalsStepCorrect ==
  ASSUME SetInv, TotalsInv, [AuthoringNext]_authoringVars
  PROVE  TotalsInv' /\ RecalculatedStep /\ PaperStepAddsUp
<1>1. ASSUME NEW r \in Requests, SetStep(r)
      PROVE  TotalsInv' /\ RecalculatedStep /\ PaperStepAddsUp
  <2>0. /\ SetHandler(r) /\ OnlySlot(r, SetLabels) /\ "unused" \notin SetLabels
        /\ OneAtATime => SetCurrent(req[r])
    BY <1>1, SetHandlers, SetSlot DEF SetInv, KeysInv, SetLabels, TotalsInv
  <2>1. SetTotal(items, questions) = SumFunction(PaperMarks(items))
    BY DEF SetTotal, PaperMarks
  <2>2. CASE ~OneAtATime
    BY <2>0, <2>2, TotalsAlone DEF RecalculatedStep, PaperStepAddsUp
  <2>3. CASE OneAtATime
    <3>1. /\ SetCurrent(req[r])'
          /\ DOMAIN items' # DOMAIN items => total' = SetTotal(items', questions')
          /\ paper' # paper => paper'.total = total /\ paper'.marks = PaperMarks(items)
      BY <2>0, <2>3, AddTotals, RemoveTotals, PaperTotals, OtherTotals
    <3> QED BY <2>0, <2>1, <3>1, TotalsAlone DEF RecalculatedStep, PaperStepAddsUp
  <2> QED BY <2>2, <2>3
<1>2. ASSUME NEW r \in Requests, OnlySlot(r, LibraryLabels) \/ OnlySlot(r, {"window.save"}),
             UNCHANGED db
      PROVE  TotalsInv' /\ RecalculatedStep /\ PaperStepAddsUp
  <2>1. SetCurrent(req[r])' /\ "unused" \notin LibraryLabels
    BY <1>2 DEF OnlySlot, LibraryLabels, SetCurrent
  <2> QED BY <1>2, <2>1, TotalsAlone DEF RecalculatedStep, PaperStepAddsUp, db
<1>3. CASE UNCHANGED authoringVars
  BY <1>3 DEF authoringVars, db, TotalsInv, OneAtATime, SetCurrent, RecalculatedStep,
     PaperStepAddsUp, ItemsWithOwn, PaperMarks
<1> QED
  BY <1>1, <1>2, <1>3, LibrarySlot, WindowSlot DEF AuthoringNext, SetInv, KeysInv

\* With one request at a time a set's total is recalculated together with its
\* items, whatever was inserted, removed, moved or given other marks before, and an
\* assessment made from a set whose total is right adds up to it.
THEOREM TotalsAddUpCorrect == AuthoringSpec => TotalsAddUp
<1>1. SetInv /\ TotalsInv /\ [AuthoringNext]_authoringVars
        => TotalsInv' /\ RecalculatedStep /\ PaperStepAddsUp
  BY TotalsStepCorrect
<1>2. AuthoringSpec => [][RecalculatedStep]_vars
  BY <1>1, SetInit, SetInvStep, TotalsInit, PTL DEF AuthoringSpec
<1>3. AuthoringSpec => [][PaperStepAddsUp]_vars
  BY <1>1, SetInit, SetInvStep, TotalsInit, PTL DEF AuthoringSpec
<1> QED
  BY <1>2, <1>3, PTL DEF TotalsAddUp, RecalculatedWithItems, PaperAddsUp, RecalculatedStep,
     PaperStepAddsUp
=============================================================================
