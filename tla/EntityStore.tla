------------------------------ MODULE EntityStore ------------------------------
(***************************************************************************)
(* The normalized store of packages/ui/src/store with optimistic           *)
(* mutations, and one list query that shows it: entity-store.ts,           *)
(* optimistic-handler.ts, query-result-index.ts, createMutationDescriptor  *)
(* of packages/fetch, and the parts of query.ts that merge a list and that *)
(* compute what it shows.  A field's value is the mutation that wrote it.  *)
(* The order of a list is left out.                                        *)
(***************************************************************************)
EXTENDS Naturals, Sequences

CONSTANTS
  Entities, Fields, Mutations,
  Kind,      \* Kind[m]: "create", "update" or "delete"
  Target,    \* Target[m]: the entity
  Writes,    \* Writes[m]: the fields of an update's body
  Counter,   \* Counter[m]: m is the Counter[m]-th send of its descriptor
  Existing,  \* entities that the server has from the start
  MaxPolls,  \* bound: refetches that no mutation asked for
  Original,  \* value of a field that no mutation wrote
  Absent

Value == [Fields -> Mutations \cup {Original}]
Entry == [base : Value, layers : Seq(Mutations), listed : BOOLEAN]

ASSUME MutationAssumption ==
  /\ Kind \in [Mutations -> {"create", "update", "delete"}]
  /\ Target \in [Mutations -> Entities] /\ Writes \in [Mutations -> SUBSET Fields]
  /\ Counter \in [Mutations -> Nat \ {0}]
ASSUME ServerAssumption ==
  /\ Existing \subseteq Entities /\ MaxPolls \in Nat
  /\ Absent \notin Value /\ Absent \notin Entry /\ \A ids \in SUBSET Entities : ids # Absent

VARIABLES
  server, \* server[e]: the row, or Absent
  phase,  \* phase[m]: idle, sent, served, refused, then done, undone or lost
  answer, \* answer[m]: the row in the server's answer
  undo,   \* undo[m], a delete's snapshot: [entity, index]
  moment, \* updates that were sent in this millisecond
  id,     \* id[m]: the first update that has the id of m
  entry,  \* entry[e]: [base, layers, listed], or Absent; listed: it had a reference
  index,  \* queryIndices: the ids of the list, or Absent
  list,   \* the list's newest request: sent, answered, failed, or idle once it is merged
  rows,   \* the rows of its answer
  polls,
  view,   \* view[e]: what data.value of the list holds of e, or Absent
  watch   \* entities whose signals it was computed from

naming == <<moment, id>>
mutating == <<server, phase, answer, undo>>
vars == <<mutating, naming, entry, index, list, rows, polls, view, watch>>

Init ==
  /\ server = [e \in Entities |-> IF e \in Existing THEN [f \in Fields |-> Original] ELSE Absent]
  /\ phase = [m \in Mutations |-> "idle"]
  /\ answer = [m \in Mutations |-> Absent]
  /\ undo = [m \in Mutations |-> [entity |-> Absent, index |-> Absent]]
  /\ moment = {} /\ id = [m \in Mutations |-> m]
  /\ entry = [e \in Entities |-> Absent]
  /\ index = Absent /\ list = "sent" /\ polls = 0
  /\ rows = [e \in Entities |-> Absent]
  /\ view = [e \in Entities |-> Absent] /\ watch = {}

(***************************************************************************)
(* Reading the store                                                       *)
(***************************************************************************)
Patched(value, m) == [f \in Fields |-> IF f \in Writes[m] THEN m ELSE value[f]]

\* _recomputeVisible: for each field the newest layer that writes it, or base.
Visible(x) ==
  IF x = Absent THEN Absent
  ELSE [f \in Fields |->
         LET writers == {i \in DOMAIN x.layers : f \in Writes[x.layers[i]]}
         IN  IF writers = {} THEN x.base[f]
             ELSE x.layers[CHOOSE i \in writers : \A j \in writers : j <= i]]

Indexed(ids, e) == ids # Absent /\ e \in ids
Shown(entries, ids) ==
  [e \in Entities |-> IF Indexed(ids, e) THEN Visible(entries[e]) ELSE Absent]

\* The computed behind data runs again when rawData is written, or when one of
\* the signals it read changes; the index is not a signal.
RenderWritten(written) ==
  IF written THEN /\ view' = Shown(entry', index')
                  /\ watch' = {e \in Entities : Indexed(index', e) /\ entry'[e] # Absent}
  ELSE UNCHANGED <<view, watch>>
Render(written) ==
  IF written \/ \E e \in watch : Visible(entry'[e]) # Visible(entry[e])
    THEN /\ view' = Shown(entry', index')
         /\ watch' = {e \in Entities : Indexed(index', e) /\ entry'[e] # Absent}
    ELSE UNCHANGED <<view, watch>>

(***************************************************************************)
(* Writing the store                                                       *)
(***************************************************************************)
\* Map.set of the id that m gets: a layer of that id is replaced where it is.
Stacked(layers, m) ==
  IF \A i \in DOMAIN layers : id[layers[i]] # id'[m] THEN Append(layers, m)
  ELSE [i \in DOMAIN layers |-> IF id[layers[i]] = id'[m] THEN m ELSE layers[i]]

StillWith(layers, m) == layers
\* Map.delete of the id of m: the other layers keep their order.
Without(layers, m) ==
  IF \A i \in DOMAIN layers : id[layers[i]] # id[m] THEN layers
  ELSE LET k == CHOOSE i \in DOMAIN layers : id[layers[i]] = id[m]
       IN  [i \in 1..(Len(layers) - 1) |-> layers[IF i < k THEN i ELSE i + 1]]

\* evictOrphans: entries that lost their last reference more than five minutes
\* ago and have no layers.
Evictable == {e \in Entities : /\ entry[e] # Absent /\ entry[e].listed
                               /\ entry[e].layers = <<>> /\ ~Indexed(index, e)}

\* _mergeOne: a row has all fields, so merging it replaces base.  ids is the
\* index that holds from here on.
MergedAnew(x, row, ids, e) == [base |-> row, layers |-> <<>>, listed |-> Indexed(ids, e)]
MergedOnce(x, row, ids, e) ==
  IF x = Absent THEN [base |-> row, layers |-> <<>>, listed |-> Indexed(ids, e)]
  ELSE [x EXCEPT !.listed = @ \/ Indexed(ids, e)]
Merged(x, row, ids, e) ==
  IF x = Absent THEN [base |-> row, layers |-> <<>>, listed |-> Indexed(ids, e)]
  ELSE [x EXCEPT !.base = row, !.listed = @ \/ Indexed(ids, e)]

\* merge() of the items that are not Absent; it evicts first.
Merge(items, ids) ==
  \E old \in SUBSET Evictable :
    entry' = [e \in Entities |->
               LET kept == IF e \in old THEN Absent ELSE entry[e]
               IN  IF items[e] = Absent THEN kept ELSE Merged(kept, items[e], ids, e)]

Row(e, row) == [x \in Entities |-> IF x = e THEN row ELSE Absent]

(***************************************************************************)
(* A mutation                                                              *)
(***************************************************************************)
Step(m, from, to) == phase[m] = from /\ phase' = [phase EXCEPT ![m] = to]

\* The id of a mutation is its descriptor's counter and the time in milliseconds.
Namesakes(m) == {n \in moment : Counter[n] = Counter[m]}
Name(m) ==
  /\ moment' = moment \cup {m}
  /\ id' = IF Namesakes(m) = {} THEN id
           ELSE [id EXCEPT ![m] = id[CHOOSE n \in Namesakes(m) : TRUE]]

Tick == /\ moment # {} /\ moment' = {}
        /\ UNCHANGED <<mutating, id, entry, index, list, rows, polls, view, watch>>

\* then() of the descriptor: apply() of the handler, and the request is sent.
SendUpdate(m) ==
  LET e == Target[m]
  IN  /\ Kind[m] = "update" /\ Step(m, "idle", "sent") /\ Name(m)
      /\ entry' = IF entry[e] = Absent THEN entry
                  ELSE [entry EXCEPT ![e].layers = Stacked(@, m)]
      /\ UNCHANGED <<server, answer, undo, index, list, rows, polls>>
      /\ Render(FALSE)

SnapshotEntry(e) == entry[e]

\* The snapshot that a rollback merges again is the visible value.
Snapshot(e) == Visible(entry[e])

SendDelete(m) ==
  LET e == Target[m]
  IN  /\ Kind[m] = "delete" /\ Step(m, "idle", "sent")
      /\ undo' = [undo EXCEPT ![m] = [entity |-> Snapshot(e),
                                      index |-> IF Indexed(index, e) THEN index ELSE Absent]]
      /\ entry' = [entry EXCEPT ![e] = Absent]
      /\ index' = IF index = Absent THEN Absent ELSE index \ {e}
      /\ UNCHANGED <<naming, server, answer, list, rows, polls>>
      /\ Render(FALSE)

SendCreate(m) ==
  /\ Kind[m] = "create" /\ Step(m, "idle", "sent")
  /\ UNCHANGED <<naming, server, answer, undo, entry, index, list, rows, polls, view, watch>>

\* The server takes the mutation, or refuses it: an update or a delete of a row
\* that is gone is refused.
Serve(m) ==
  LET e == Target[m]
      row == CASE Kind[m] = "create" -> [f \in Fields |-> m]
               [] Kind[m] = "update" -> Patched(server[e], m)
               [] Kind[m] = "delete" -> Absent
  IN  /\ Step(m, "sent", "served")
      /\ (Kind[m] = "create") <=> (server[e] = Absent)
      /\ server' = [server EXCEPT ![e] = row]
      /\ answer' = [answer EXCEPT ![m] = row]
      /\ UNCHANGED <<naming, undo, entry, index, list, rows, polls, view, watch>>

Refuse(m) ==
  /\ Step(m, "sent", "refused")
  /\ UNCHANGED <<naming, server, answer, undo, entry, index, list, rows, polls, view, watch>>

\* commit() of the handler.  It emits, and the list refetches; an older answer
\* to the list is ignored from then on.
Commit(m) ==
  LET e == Target[m]
  IN  /\ Step(m, "served", "done")
      /\ \/ /\ Kind[m] = "update"
            /\ entry' = IF entry[e] = Absent THEN entry
                        ELSE [entry EXCEPT ![e].base = answer[m], ![e].layers = Without(@, m)]
         \/ Kind[m] = "create" /\ Merge(Row(e, answer[m]), index)
         \/ Kind[m] = "delete" /\ UNCHANGED entry
      /\ list' = "sent"
      /\ UNCHANGED <<naming, server, answer, undo, index, rows, polls>>
      /\ Render(FALSE)

\* The rollback that apply() returned, after an error or a lost answer.
Rollback(m) ==
  LET e == Target[m]
  IN  /\ Step(m, "refused", "undone") \/ Step(m, "served", "lost")
      /\ \/ /\ Kind[m] = "update"
            /\ entry' = IF entry[e] = Absent THEN entry
                        ELSE [entry EXCEPT ![e].layers = Without(@, m)]
            /\ UNCHANGED index
         \/ /\ Kind[m] = "delete"
            /\ index' = IF undo[m].index = Absent THEN index ELSE undo[m].index
            /\ IF undo[m].entity = Absent THEN UNCHANGED entry
               ELSE Merge(Row(e, undo[m].entity), index')
         \/ Kind[m] = "create" /\ UNCHANGED <<entry, index>>
      /\ UNCHANGED <<naming, server, answer, undo, list, rows, polls>>
      /\ Render(FALSE)

(***************************************************************************)
(* The list query                                                          *)
(***************************************************************************)
Poll == /\ polls < MaxPolls /\ polls' = polls + 1
        /\ list' = "sent"
        /\ UNCHANGED <<mutating, naming, entry, index, rows, view, watch>>

ServeList == /\ list = "sent" /\ list' = "answered" /\ rows' = server
             /\ UNCHANGED <<mutating, naming, entry, index, polls, view, watch>>

FailList == /\ list \in {"sent", "answered"} /\ list' = "failed"
            /\ UNCHANGED <<mutating, naming, entry, index, rows, polls, view, watch>>

\* handleFetchPromise: normalizeToEntityStore, then rawData is written.
AcceptList ==
  /\ list = "answered" /\ list' = "idle"
  /\ index' = {e \in Entities : rows[e] # Absent}
  /\ Merge(rows, index')
  /\ UNCHANGED <<mutating, naming, rows, polls>>
  /\ Render(TRUE)

Next == \/ \E m \in Mutations : \/ SendUpdate(m) \/ SendDelete(m) \/ SendCreate(m)
                                \/ Serve(m) \/ Refuse(m) \/ Commit(m) \/ Rollback(m)
        \/ Tick \/ Poll \/ ServeList \/ FailList \/ AcceptList

Spec == Init /\ [][Next]_vars

(***************************************************************************)
(* Properties                                                              *)
(***************************************************************************)
Pending(m) == phase[m] \in {"sent", "served", "refused"}
Layers(x) == IF x = Absent THEN {} ELSE {x.layers[i] : i \in DOMAIN x.layers}

TypeOK ==
  /\ server \in [Entities -> Value \cup {Absent}]
  /\ phase \in [Mutations -> {"idle", "sent", "served", "refused", "done", "undone", "lost"}]
  /\ answer \in [Mutations -> Value \cup {Absent}]
  /\ undo \in [Mutations -> [entity : Value \cup {Absent}, index : {Absent} \cup SUBSET Entities]]
  /\ moment \subseteq Mutations /\ id \in [Mutations -> Mutations]
  /\ entry \in [Entities -> Entry \cup {Absent}]
  /\ index \in {Absent} \cup SUBSET Entities
  /\ polls \in 0..MaxPolls
  /\ list \in {"sent", "answered", "failed", "idle"}
  /\ rows \in [Entities -> Value \cup {Absent}]
  /\ view \in [Entities -> Value \cup {Absent}] /\ watch \subseteq Entities

(* No ghost: an entry only holds the patches of updates of that very entity *)
(* that still wait for their answer, one for each id, through deletes,      *)
(* restores, evictions and merges that drop entries and make them again.    *)
NoGhostLayer ==
  \A e \in Entities :
    /\ \A m \in Layers(entry[e]) : Pending(m) /\ Target[m] = e /\ Kind[m] = "update"
    /\ entry[e] # Absent =>
         \A i, j \in DOMAIN entry[e].layers :
           id[entry[e].layers[i]] = id[entry[e].layers[j]] => i = j

\* A step that sends or ends a mutation that fits.
Moves(n) == phase'[n] # phase[n]
Deleting(e) == \E d \in Mutations : Kind[d] = "delete" /\ Target[d] = e /\ Moves(d)
Renaming(m) == \E n \in Mutations \ {m} : id'[n] = id'[m] /\ Moves(n)

(* A pending patch leaves an entry by the answer to its own mutation,       *)
(* because the entity is deleted, or by the patch or the answer of an       *)
(* update that got the same id: no merge, eviction or answer to another     *)
(* mutation takes it away.                                                  *)
LayersStay ==
  [][\A e \in Entities : \A m \in Layers(entry[e]) \ Layers(entry'[e]) :
       ~Pending(m)' \/ Deleting(e) \/ Renaming(m)]_vars

(* entity-store.ts: it "supports optimistic layer stack for concurrent      *)
(* mutations", so a pending patch leaves by its own answer or a deletion    *)
(* only, whatever else is under way.                                        *)
PatchesStay ==
  [][\A e \in Entities : \A m \in Layers(entry[e]) \ Layers(entry'[e]) :
       ~Pending(m)' \/ Deleting(e)]_vars

(* What the list shows is what the store holds, although its computed runs  *)
(* only when a signal it read changes; until a delete is rolled back.       *)
Undone == \E m \in Mutations : Kind[m] = "delete" /\ phase[m] \in {"undone", "lost"}
InSync == ~Undone => view = Shown(entry, index)

(* When no mutation is pending, none has lost its answer, no delete was     *)
(* rolled back and the list's newest request has been answered, it shows    *)
(* what the server has, in whatever order answers to mutations and to the   *)
(* list came back.                                                          *)
Converged ==
  /\ ~Undone /\ list = "idle"
  /\ \A m \in Mutations : ~Pending(m) /\ phase[m] # "lost"
  => view = server

(* data-fetching.mdx on mutations that fail: the UI reverts to server truth. *)
Reverts ==
  (\A m \in Mutations : phase[m] \in {"idle", "undone"}) /\ list = "idle" => view = server
================================================================================
