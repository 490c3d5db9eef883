----------------------------- MODULE Idempotency ------------------------------
(* The Idempotency-Key middleware of src/api/idempotency.ts around a handler  *)
(* it knows nothing of: it looks the key up, runs the handler if there is no  *)
(* row, and stores the handler's response.  The lookup and the insert are     *)
(* separate statements without a lock.  The composing module says what the    *)
(* handler does between Lookup and Answer.                                    *)
EXTENDS Naturals

CONSTANTS
  Calls,      \* the requests the server may be serving at once
  Keys,       \* the Idempotency-Key headers clients send
  Routes,     \* method and path
  NoRow       \* no row for the key

VARIABLES
  rows,       \* idempotency_keys: for each key [route, response] or NoRow
  call        \* the requests being served

(* A response is the number of the quote in it, 0 for any other JSON body.    *)
Phases == {"idle", "handler", "store"}
Call == [phase : Phases, key : Keys, route : Routes, response : Nat]

Unused == [phase |-> "idle", key |-> CHOOSE k \in Keys : TRUE,
           route |-> CHOOSE r \in Routes : TRUE, response |-> 0]

Init ==
  /\ rows = [k \in Keys |-> NoRow]
  /\ call = [c \in Calls |-> Unused]

In(c, phase) == call[c].phase = phase

(* Slip: the row is looked up by key and route.                               *)
LookupByRoute(c, k, route) ==
  /\ In(c, "idle") /\ (rows[k] # NoRow => rows[k].route # route)
  /\ call' = [call EXCEPT ![c] = [Unused EXCEPT !.phase = "handler", !.key = k, !.route = route]]
  /\ UNCHANGED rows

(* A key without a row runs the handler.  A key with one is answered at once  *)
(* from the row, or refused with 422 on another route, which changes nothing  *)
(* and is not a step.                                                         *)
Lookup(c, k, route) ==
  /\ In(c, "idle") /\ rows[k] = NoRow
  /\ call' = [call EXCEPT ![c] = [Unused EXCEPT !.phase = "handler", !.key = k, !.route = route]]
  /\ UNCHANGED rows

(* The handler returns a JSON response, whatever its status.                  *)
Answer(c, response) ==
  /\ In(c, "handler")
  /\ call' = [call EXCEPT ![c].phase = "store", ![c].response = response]
  /\ UNCHANGED rows

(* Slip: the later of two responses replaces the first.                       *)
StoreLatest(c) ==
  /\ In(c, "store")
  /\ rows' = [rows EXCEPT ![call[c].key] =
                [route |-> call[c].route, response |-> call[c].response]]
  /\ call' = [call EXCEPT ![c] = Unused]

(* onConflictDoNothing: the first row of a key stays.                         *)
Store(c) ==
  /\ In(c, "store")
  /\ rows' = [rows EXCEPT ![call[c].key] =
                IF @ = NoRow THEN [route |-> call[c].route, response |-> call[c].response] ELSE @]
  /\ call' = [call EXCEPT ![c] = Unused]

(* The insert rejects: the client gets a 500 and nothing is stored.           *)
StoreFails(c) ==
  /\ In(c, "store")
  /\ call' = [call EXCEPT ![c] = Unused]
  /\ UNCHANGED rows

Restart == call' = [c \in Calls |-> Unused] /\ UNCHANGED rows

TypeOK ==
  /\ rows \in [Keys -> {NoRow} \cup [route : Routes, response : Nat]]
  /\ call \in [Calls -> Call]
==============================================================================
