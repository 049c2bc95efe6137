------------------------------- MODULE TodoStore -------------------------------
(***************************************************************************)
(* The list of todos of the process (todo.py).  TodoStore makes each       *)
(* operation whole by its lock, so each is an operator on the store; an    *)
(* operation that raises is one whose condition does not hold.  Titles     *)
(* are left out.                                                           *)
(***************************************************************************)
EXTENDS Naturals, Sequences, SequencesExt

Statuses == {"pending", "in_progress", "completed"}

NewStore == [items |-> <<>>, next |-> 1]

\* create
Created(store) ==
    [items |-> Append(store.items, [id |-> store.next, status |-> "pending"]),
     next |-> store.next + 1]

\* _find
Has(store, id) == \E n \in DOMAIN store.items : store.items[n].id = id

Matches(item, id) == item.id = id

\* update: a status must be one of the three, and completed is final.
MayUpdate(store, id, status) ==
    /\ status \in Statuses
    /\ Has(store, id)
    /\ \A n \in DOMAIN store.items :
          Matches(store.items[n], id) /\ store.items[n].status = "completed" => status = "completed"

Updated(store, id, status) ==
    [store EXCEPT !.items = [n \in DOMAIN @ |->
        IF Matches(@[n], id) THEN [@[n] EXCEPT !.status = status] ELSE @[n]]]

\* delete: the item that _find finds.
Found(store, id) == CHOOSE n \in DOMAIN store.items : Matches(store.items[n], id)

Removed(store, id) == [store EXCEPT !.items = RemoveAt(@, Found(store, id))]
================================================================================
