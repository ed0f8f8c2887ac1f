----------------------------- MODULE CaddyClient -----------------------------
(***************************************************************************)
(* The requests of api/internal/caddy/client.go against Caddy's Admin API. *)
(* Caddy keeps a list of routes and answers a request with the first route *)
(* that matches the host, since every route is terminal.  A route is named *)
(* by its @id: PATCH and DELETE /id/<id> address it, POST appends to the   *)
(* list whatever the ids in it.  SwitchRoute and SwitchCustomRoute are a   *)
(* PATCH and, when Caddy does not know the id, a POST: two requests, with  *)
(* other callers' requests in between.                                     *)
(***************************************************************************)
EXTENDS Naturals, Sequences, SequencesExt

VARIABLE config     \* the routes of the server "srv0", in order

\* A route: routeConfig's "@id", host match and upstream.
RouteOf(id, host, dial) == [id |-> id, host |-> host, dial |-> dial]

\* EnsureBase creates the server with an empty list when there is none.
EnsureBase == config = << >>

At(id) == {i \in DOMAIN config : config[i].id = id}
Known(id) == At(id) # {}

\* Caddy indexes one object per id; which of two is not for a client to know.
Patch(route) == \E i \in At(route.id) : config' = [config EXCEPT ![i] = route]

Post(route) == config' = Append(config, route)

\* deleteByID: Caddy's "unknown object id" counts as success.
Delete(id) ==
    \/ \E i \in At(id) : config' = RemoveAt(config, i)
    \/ ~Known(id) /\ UNCHANGED config

\* UpsertRoute, which switchRoute falls back to with a client that cannot
\* switch in one request: DELETE, then POST.
TryUpsert(route, done, unknown) == Delete(route.id) /\ unknown

\* A caller of a switch goes on with `done` after a PATCH that found its
\* route, with `unknown` after one that did not and has changed nothing.
TryPatch(route, done, unknown) ==
    \/ Patch(route) /\ done
    \/ ~Known(route.id) /\ UNCHANGED config /\ unknown

\* The release a visitor of `host` reaches, if any: the first route answers.
Served(host) ==
    {config[i].dial : i \in {j \in DOMAIN config :
        config[j].host = host /\ \A k \in 1..(j - 1) : config[k].host # host}}
=============================================================================
