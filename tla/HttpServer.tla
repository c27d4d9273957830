------------------------------ MODULE HttpServer ------------------------------
(***************************************************************************)
(* The HTTP side as a whole: HttpRouting finds the route of a request, and  *)
(* Middleware takes the request through the route's middleware to its       *)
(* handler and the answer back (handle_http, http/routes.rs).               *)
(***************************************************************************)
EXTENDS HttpRouting, Middleware

CONSTANT Registrations   \* the routes an application may register

\* default_middleware, which a route without a middleware gets.
Standard == Leaf("standard", 1)

ASSUME MiddlewaresAssumption ==
    /\ Standard \in Middlewares
    /\ \A m \in Middlewares :
          /\ m.chain \in Seq(Middlewares)
          /\ m.number \in Nat
          /\ m.kind = "cors" => m.methods \subseteq Items /\ m.origin \in Items

ASSUME HeadersAssumption == HandlerHeaders \subseteq HeaderType

ASSUME RegistrationsAssumption ==
    Registrations \subseteq [method : RouteMethods, path : Paths, uses : Middlewares]

VARIABLE uses   \* the middleware of each route of the table

svars == <<vars, uses, mvars>>

ServerInit == Init /\ MiddlewareInit /\ uses = <<>>

\* router with a middleware, or with None.
Register(r) ==
    /\ Router(r.method, r.path)
    /\ uses' = Append(uses, r.uses)
    /\ UNCHANGED mvars

\* get: the routes of files have default_middleware.
RegisterFiles ==
    /\ ServeStatic \/ ServeStaticFails
    /\ uses' = uses \o [n \in 1..(Len(routes') - Len(routes)) |-> Standard]
    /\ UNCHANGED mvars

\* The table is fixed, a request comes, and the loop goes over the routes.
Search ==
    /\ Start \/ (\E q \in Request : Receive(q)) \/ TryRoute \/ GiveUp
    /\ UNCHANGED <<uses, mvars>>

\* The rest of a request that the routes do not look at.
Rest == [origin : Origins \cup {NoOrigin}, wants : SUBSET {"known", "foreign"},
         length : Lengths \cup {Unknown}, body : {"none", "sent", "broken"}]

\* The loop has found a route: its handler is called.
CallRoute ==
    /\ pc = "answered" /\ answer.route # 0
    /\ \E r \in Rest :
          Enter(uses[answer.route],
                [method |-> req.method, origin |-> r.origin, wants |-> r.wants,
                 length |-> r.length, body |-> r.body])
    /\ UNCHANGED <<vars, uses>>

Answer == MiddlewareNext /\ UNCHANGED <<vars, uses>>

\* The response goes out; without a route the loop has made it.
SendResponse ==
    /\ Sent
    /\ IF answer.route # 0 THEN Leave ELSE UNCHANGED mvars
    /\ UNCHANGED uses

ServerNext ==
    \/ \E r \in Registrations : Register(r)
    \/ RegisterFiles
    \/ Search
    \/ CallRoute
    \/ Answer
    \/ SendResponse

ServerSpec == ServerInit /\ [][ServerNext]_svars

-----------------------------------------------------------------------------
(* Properties *)

\* HttpRouting's and Middleware's types, and a middleware for every route.
ServerTypeOK ==
    /\ TypeOK
    /\ MiddlewareOK
    /\ uses \in Seq(Middlewares) /\ Len(uses) = Len(routes)
=============================================================================
