------------------------------ MODULE MCReadback ------------------------------
(* A small instance of Readback.  The environments are the shapes of a      *)
(* rotation: a handover at time 1 without overlap, a token listed twice     *)
(* with different limits, list items that are blank, a credential for       *)
(* another write key, a process without read routes, and three that must    *)
(* not start.  Document fresh is outside the startup surface.  There is a   *)
(* request for every check of the handlers.                                 *)
EXTENDS Readback

CONSTANTS k1, k2, open, live, off, fresh, new, old, c1, sa, sb, sc, good, evil, plan

MCKeyOf          == [d \in Docs |-> k1]
MCEnabled        == Docs \ {off}
MCScopeOf        == [d \in Docs |-> CASE d = live -> sb [] d = fresh -> sc [] OTHER -> sa]
MCAllowedOrigins == [d \in Docs |-> {good}]
MCReadbackPolicy == [d \in Docs |-> IF d = live THEN {"realtime"} ELSE SourceRoutes]
MCPropertyFilters ==
    [d \in Docs |-> {[selector |-> plan, types |-> IF d = live THEN {} ELSE {"string"}]}]

Item(form, t, from, until, routes, keys) ==
    [form |-> form, readable |-> TRUE, token |-> t, notBefore |-> from, expiresAt |-> until,
     scopes |-> routes, writeKeys |-> keys]
Plain(t) == Item("text", t, Unset, Unset, {}, {})
Deployment(primary, rotation) ==
    [primary |-> primary, rotation |-> rotation, query |-> TRUE, mysql |-> TRUE,
     diagnostics |-> TRUE, metrics |-> TRUE]

MCEnvs ==
    {Deployment(Item("text", new, 1, Unset, {}, {}),
                <<Item("object", old, Unset, 1, {"realtime", "events", "kafka_metrics"}, {k1})>>),
     Deployment(Item("text", new, Unset, 2, {"goals", BlankScope}, {}),
                <<Plain(BlankToken), Plain(new), Plain(old)>>),
     [Deployment(Plain(BlankToken), <<Item("object", old, Unset, Unset, {BlankScope}, {BlankKey})>>)
         EXCEPT !.mysql = FALSE, !.diagnostics = FALSE, !.metrics = FALSE],
     Deployment(Item("text", new, Unset, Unset, {}, {k2}), <<>>),
     [Deployment(Plain(BlankToken), <<>>)
         EXCEPT !.query = FALSE, !.diagnostics = FALSE, !.metrics = FALSE],
     Deployment(Plain(BlankToken), <<>>),
     Deployment(Item("text", new, 1, 1, {}, {}), <<Plain(old)>>),
     Deployment(Plain(new), <<Item("object", BlankToken, Unset, Unset, {}, {})>>)}

Realtime == [route |-> "realtime", token |-> new, header |-> k1, param |-> BlankKey, origin |-> good,
             from |-> Absent, to |-> Absent, limit |-> Absent, offset |-> Absent,
             filters |-> <<>>, named |-> TRUE, catalog |-> ""]
Matching(type) == [selector |-> plan, type |-> type, decodes |-> TRUE, fits |-> TRUE]
MCFilters == {Matching("string"), Matching("number"), [Matching("string") EXCEPT !.fits = FALSE]}
Events == [Realtime EXCEPT !.route = "events", !.token = old, !.from = 0, !.to = 1,
                           !.filters = <<Matching("string")>>]

MCQueries ==
    {Realtime,
     [Realtime EXCEPT !.origin = evil, !.limit = 1],
     [Realtime EXCEPT !.token = old, !.header = BlankKey, !.param = k1, !.from = 0],
     [Realtime EXCEPT !.token = old, !.header = BlankKey],
     [Realtime EXCEPT !.token = BlankToken],
     Events,
     [Events EXCEPT !.filters = <<Matching("number")>>, !.limit = 2, !.offset = 1],
     [Events EXCEPT !.filters = <<Matching("string"), Matching("string")>>],
     [Events EXCEPT !.token = new, !.filters = <<>>, !.to = Absent],
     [Realtime EXCEPT !.route = "goals", !.from = 0, !.to = 1],
     [Realtime EXCEPT !.route = "goals", !.from = 0, !.to = 1, !.named = FALSE],
     [Realtime EXCEPT !.route = "properties", !.token = old, !.limit = 2],
     [Realtime EXCEPT !.route = "properties", !.limit = 3],
     [Realtime EXCEPT !.route = "kafka_diagnostics"],
     [Realtime EXCEPT !.route = "kafka_metrics", !.token = old, !.header = BlankKey]}
=============================================================================
