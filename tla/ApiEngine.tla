------------------------------ MODULE ApiEngine ------------------------------
(***************************************************************************)
(* The API engine (api.rs) as its clients see it, and vela-ctl, the client *)
(* that comes with it: what a request is answered from one copy of the     *)
(* store, and what vela-ctl tells its user of the answer.  The routes of a *)
(* service look its id up, one in the store, the others in the             *)
(* configuration.                                                          *)
(***************************************************************************)
EXTENDS Naturals

CONSTANTS
  Unroutable,   \* the ids no path of the router matches: the empty one
  Malformed,    \* the ids the handlers reject
  Nothing       \* no service's status is part of the answer

\* GET /api/v1/status (or /services), /services/:id, and below it the three histories;
\* vela-ctl sends them with the key it was given, the right one or not.
Route == {"status", "service", "history"}
Request(Id) == [route : Route, id : Id, key : BOOLEAN]

\* The handlers with their early returns: one service is looked up in the store, its
\* histories in the configuration.
Handled(r, store, configured) ==
  CASE r.route = "status" -> 200
    [] r.route # "status" /\ r.id \in Malformed -> 400
    [] r.route = "service" /\ r.id \in DOMAIN store \ Malformed -> 200
    [] r.route = "history" /\ r.id \in configured \ Malformed -> 200
    [] OTHER -> 404

\* The router, which finds a path to a handler or not, then the handler.
Routed(r, store, configured) ==
  IF r.route # "status" /\ r.id \in Unroutable THEN 404 ELSE Handled(r, store, configured)

\* A wrong router: the histories are left out of the layer that asks for the key.
Code_NoAuth(r, store, configured) ==
  IF ~r.key /\ r.route # "history" THEN 401 ELSE Routed(r, store, configured)

\* The layer of auth_middleware lies around the routes and around the fallback for what
\* matches none: without the key there is no other answer.
Code(r, store, configured) ==
  IF ~r.key THEN 401 ELSE Routed(r, store, configured)

\* The status in the body, for the route that shows the one of a service.
Body(r, store, configured) ==
  IF r.route = "service" /\ Code(r, store, configured) = 200 THEN store[r.id] ELSE Nothing

\* get_json: what vela-ctl makes of the answer.  It exits with success on "ok" only.
Told(code) ==
  CASE code = 401 -> "denied"
    [] code = 404 -> "not found"
    [] code = 200 -> "ok"
    [] OTHER -> "error"
=============================================================================
