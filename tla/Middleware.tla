------------------------------ MODULE Middleware ------------------------------
(***************************************************************************)
(* From a route to its answer: the middleware of the route, its handler,    *)
(* and the headers of the answer (http/routes.rs, http/server.rs).          *)
(*                                                                         *)
(* A middleware is called with the request and a NextWrapper around the     *)
(* function to go on with.  That function is given a NextWrapper in turn,   *)
(* and a chain goes on with whichever it was given: the model keeps both.   *)
(* The function is the handler, the default one, or "go on behind place     *)
(* `at` of a chain" around a function to end with, so it is the sequence    *)
(* of such places from the innermost chain out, <<>> for the handler.       *)
(*                                                                         *)
(* One request at a time: requests share nothing but the routes.  Header    *)
(* values are sets of the items between their commas.                       *)
(***************************************************************************)
EXTENDS Integers, Sequences, FiniteSets

CONSTANTS
    Middlewares,     \* middlewares, chains of them and what is in the chains
    Items,           \* what is between the commas of a header
    Origins,         \* the origins a request may name
    MaxSize,         \* max_size of the server's options
    Lengths,         \* the lengths a request may declare
    Unknown,         \* no content-length, or none that is a number
    HandlerHeaders,  \* the headers that handlers and middlewares answer with
    NoOrigin         \* a request without an origin

ASSUME LengthsAssumption == MaxSize \in Nat /\ Lengths \subseteq Nat /\ Unknown \notin Lengths

VARIABLES
    stage,     \* "idle", "handle", "call", "back" or "done"
    whole,     \* the middleware of the route
    part,      \* the middleware that is called
    func,      \* the function of the NextWrapper `part` is given, or that is called
    given,     \* the function of the NextWrapper a called function is given
    ran,       \* history: the middlewares that were called, and what they did
    awaiting,  \* the CORS middlewares that wait for the answer
    asked,     \* what the request says, see RequestType
    body,      \* its body: "none", "sent" or "broken"
    data,      \* `data` of Req: who set it, and whether it fits the handler
    by,        \* history: who answered
    got,       \* history: what the handler gets for data
    res,       \* the Res that comes back
    response   \* the response of handle_http

mvars == <<stage, whole, part, func, given, ran, awaiting, asked, body, data, by, got, res, response>>

request == <<whole, asked>>
answered == <<by, got, res, response>>

HeaderNames == {"allowMethods", "allowOrigin", "vary", "custom"}

\* The names that begin with access-control-.
AccessControl == {"allowMethods", "allowOrigin"}

NoHeaders == [k \in HeaderNames |-> <<>>]

RequestType == [method : {"GET", "POST", "PUT", "DELETE", "PATCH"}, origin : Origins \cup {NoOrigin},
                wants : SUBSET {"known", "foreign"}, length : Lengths \cup {Unknown},
                body : {"none", "sent", "broken"}]

\* The kinds of middleware: the application's own, default_middleware, the one
\* of create_cors_middleware, and a chain of them.  A leaf knows its number in
\* the order in which the application chained them.
Leaf(kind, number) == [kind |-> kind, number |-> number, chain |-> <<>>,
                       origin |-> NoOrigin, methods |-> {}]
Cors(number, origin, methods) ==
    [kind |-> "cors", number |-> number, chain |-> <<>>, origin |-> origin, methods |-> methods]
Chain(chain) == [kind |-> "chain", number |-> 0, chain |-> chain,
                 origin |-> NoOrigin, methods |-> {}]

Handler == <<>>
Default == <<[chain |-> <<>>, at |-> 0]>>

\* Who answered with data: nobody, the client, or a middleware by its number.
Nobody == 0
Client == -1

NoRes == [ok |-> TRUE, status |-> 0, response |-> NoHeaders, headers |-> NoHeaders]

MiddlewareInit ==
    /\ stage = "idle"
    /\ whole = Leaf("standard", 1) /\ part = Leaf("standard", 1)
    /\ func = Handler /\ given = Handler
    /\ ran = <<>> /\ awaiting = <<>>
    /\ asked = [method |-> "GET", origin |-> NoOrigin, wants |-> {}, length |-> Unknown, body |-> "none"]
    /\ body = "none"
    /\ data = [by |-> Nobody, fits |-> FALSE]
    /\ by = "nobody" /\ got = Nobody
    /\ res = NoRes /\ response = NoRes

\* (route.handler)(req): the request as it came, with an empty Vec<u8> for data.
Enter(m, q) ==
    /\ stage = "idle"
    /\ stage' = "handle"
    /\ whole' = m /\ part' = m
    /\ asked' = q /\ body' = q.body
    /\ UNCHANGED <<func, given, ran, awaiting, data, answered>>

-----------------------------------------------------------------------------
(* The chain *)

\* call_last on a NextWrapper around `self`: the middleware at `at`, or, behind
\* the last one, `self` with a NextWrapper around `end`.
CallLast(self, chain, at, end) ==
    \/ /\ at <= Len(chain)
       /\ stage' = "handle"
       /\ part' = chain[at]
       /\ func' = <<[chain |-> chain, at |-> at]>> \o end
       /\ UNCHANGED given
    \/ /\ at > Len(chain)
       /\ stage' = "call"
       /\ func' = self
       /\ given' = end
       /\ UNCHANGED part

HandleChain ==
    /\ stage = "handle" /\ part.kind = "chain"
    /\ CallLast(func, part.chain, 1, func)
    /\ UNCHANGED <<request, ran, awaiting, body, data, answered>>

\* Mutated form: behind the last middleware the given function is called with
\* itself, never with the handler.
CallNextItself ==
    /\ stage = "call" /\ func # Handler /\ func # Default
    /\ \/ func[1].at < Len(func[1].chain) /\ CallLast(given, func[1].chain, func[1].at + 1, Tail(func))
       \/ /\ func[1].at >= Len(func[1].chain)
          /\ func' = given /\ given' = Default
          /\ UNCHANGED <<stage, part>>
    /\ UNCHANGED <<request, ran, awaiting, body, data, answered>>

\* The function that a chain makes for the middleware at `at`.
CallNext ==
    /\ stage = "call" /\ func # Handler /\ func # Default
    /\ CallLast(given, func[1].chain, func[1].at + 1, Tail(func))
    /\ UNCHANGED <<request, ran, awaiting, body, data, answered>>

-----------------------------------------------------------------------------
(* The middlewares *)

\* A middleware was called, and it goes on with "next", "default" or with none.
Ran(read, set, on) ==
    ran' = Append(ran, [number |-> part.number, read |-> read, set |-> set, on |-> on])

\* next.call(req, &wrapper): the wrapper it was given, or the default one.
PassOn(wrapper) ==
    /\ stage' = "call"
    /\ given' = wrapper
    /\ UNCHANGED <<func, part, answered>>

AnswerWith(who, r) ==
    /\ stage' = "back"
    /\ by' = who
    /\ res' = r
    /\ UNCHANGED <<part, func, given, got, response>>

Own(ok, status, headers) ==
    [ok |-> ok, status |-> status, response |-> NoHeaders, headers |-> headers]

\* Mutated form: get_data leaves the body in the request.
TakesDataLeaves(read, set) ==
    /\ UNCHANGED body
    /\ data' = IF set = "no" THEN data ELSE [by |-> part.number, fits |-> set = "fits"]

\* get_data reads the body to its end; set_data replaces `data`.
TakesData(read, set) ==
    /\ body' = IF read THEN "none" ELSE body
    /\ data' = IF set = "no" THEN data ELSE [by |-> part.number, fits |-> set = "fits"]

\* Code of the application: it may take the data and set it, and passes the
\* request on or answers it.  Data that "fits" is a String or a JSON value of
\* which the handler's type can be made under the content-type of the request.
\* A String handler takes both under text/plain, JSON or none; a JSON handler
\* text that parses as JSON (JSON or none) or XML, any text/plain, and a JSON
\* value under JSON or none; a handler of bytes takes base64 under octet-stream
\* or none.  All other data becomes D::default().
UserMiddleware ==
    /\ stage = "handle" /\ part.kind = "user"
    /\ \E read \in BOOLEAN, set \in {"no", "fits", "other"}, on \in {"next", "default", "none"} :
          /\ TakesData(read, set)
          /\ Ran(read, set, on)
          /\ \/ on = "next" /\ PassOn(func)
             \/ on = "default" /\ PassOn(Default)
             \/ /\ on = "none"
                /\ \E r \in {Own(TRUE, 200, h) : h \in HandlerHeaders}
                                \cup {Own(FALSE, 500, NoHeaders)} : AnswerWith("middleware", r)
    /\ UNCHANGED <<request, awaiting>>

StandardMiddleware ==
    /\ stage = "handle" /\ part.kind = "standard"
    /\ Ran(FALSE, "no", "default")
    /\ PassOn(Default)
    /\ UNCHANGED <<request, awaiting, body, data>>

\* The headers a CORS middleware sets.
CorsHeaders(m) == [NoHeaders EXCEPT !["allowMethods"] = <<m.methods>>, !["allowOrigin"] = <<{m.origin}>>]

OriginFits(m, q) == q.origin \in {NoOrigin, m.origin} \/ m.origin = "*"
Admits(m, q)     == q.method \in m.methods /\ q.wants \subseteq {"known"} /\ OriginFits(m, q)

\* The method, the headers the client asks for, and the origin must be allowed.
\* The answer to a preflight is left out: no route has the method OPTIONS.
CorsMiddleware ==
    /\ stage = "handle" /\ part.kind = "cors"
    /\ IF Admits(part, asked)
         THEN /\ awaiting' = Append(awaiting, part)
              /\ Ran(FALSE, "no", "next")
              /\ PassOn(func)
         ELSE /\ Ran(FALSE, "no", "none")
              /\ AnswerWith("cors", Own(TRUE, IF asked.method \in part.methods THEN 403 ELSE 405,
                                        CorsHeaders(part)))
              /\ UNCHANGED awaiting
    /\ UNCHANGED <<request, body, data>>

-----------------------------------------------------------------------------
(* Where the calls end *)

\* The function of NextWrapper::default().
CallDefault ==
    /\ stage = "call" /\ func = Default
    /\ AnswerWith("nobody", Own(TRUE, 200, NoHeaders))
    /\ UNCHANGED <<request, ran, awaiting, body, data>>

LastOf(values) == IF values = <<>> THEN <<>> ELSE <<values[Len(values)]>>

\* create_response: of the names that are no lists the last value stays.
Created(headers) ==
    [ok |-> TRUE, status |-> 200, headers |-> headers,
     response |-> [k \in HeaderNames |->
                     IF k \in {"allowMethods", "vary"} THEN headers[k] ELSE LastOf(headers[k])]]

TooLarge == asked.length # Unknown /\ asked.length > MaxSize

\* What get_data gives the handler: the body, or the data a middleware set, if
\* extract_request_data can make the handler's type of it.
HandlerData == IF body = "sent" THEN Client ELSE IF data.fits THEN data.by ELSE Nobody

\* process_body: the handler is called when the body is not too large and was
\* read without an error.
CallHandler ==
    /\ stage = "call" /\ func = Handler
    /\ \/ /\ TooLarge
          /\ by' = "size" /\ res' = Own(TRUE, 413, NoHeaders) /\ UNCHANGED got
       \/ /\ ~TooLarge /\ body = "broken"
          /\ by' = "body" /\ res' = Own(FALSE, 500, NoHeaders) /\ UNCHANGED got
       \/ /\ ~TooLarge /\ body # "broken"
          /\ by' = "handler" /\ got' = HandlerData
          /\ \E h \in HandlerHeaders :
                res' \in {Created(h), Own(TRUE, 500, h), Own(FALSE, 500, h)}
    /\ stage' = "back"
    /\ UNCHANGED <<request, part, func, given, ran, awaiting, body, data, response>>

-----------------------------------------------------------------------------
(* The way back *)

\* HeaderMap::extend: the values of a name that comes again are replaced.
Extended(old, new) == [k \in HeaderNames |-> IF new[k] = <<>> THEN old[k] ELSE new[k]]

\* set_headers of the innermost CORS middleware that waits; an error has none.
SetHeaders ==
    /\ stage = "back" /\ awaiting # <<>>
    /\ res' = IF res.ok
                THEN [res EXCEPT !.response = Extended(@, CorsHeaders(awaiting[Len(awaiting)]))]
                ELSE res
    /\ awaiting' = SubSeq(awaiting, 1, Len(awaiting) - 1)
    /\ UNCHANGED <<request, stage, part, func, given, ran, body, data, by, got, response>>

\* The values of a list header: those of the response, and the new ones of `more`.
Joined(have, more) ==
    LET joined[n \in 0..Len(more)] ==
            IF n = 0 THEN have
            ELSE IF \E i \in DOMAIN joined[n - 1] : joined[n - 1][i] = more[n]
                   THEN joined[n - 1] ELSE Append(joined[n - 1], more[n])
    IN  joined[Len(more)]

\* What handle_http makes of the values of name k in the response and in Res.
\* Access-control values are united with the first one the response had before.
Merged(k, have, more) ==
    IF more = <<>> THEN have
    ELSE IF k \in AccessControl /\ have # <<>> THEN <<have[1] \cup more[Len(more)]>>
    ELSE IF k = "vary" THEN Joined(have, more)
    ELSE LastOf(more)

\* Mutated form: the values of Res replace those of the response.
FinishReplaces ==
    /\ stage = "back" /\ awaiting = <<>>
    /\ stage' = "done"
    /\ response' = IF res.ok
                     THEN [res EXCEPT !.response = Extended(@, res.headers)]
                     ELSE Own(TRUE, 500, NoHeaders)
    /\ UNCHANGED <<request, part, func, given, ran, awaiting, body, data, by, got, res>>

\* The end of handle_http: an error becomes a response of its own.
Finish ==
    /\ stage = "back" /\ awaiting = <<>>
    /\ stage' = "done"
    /\ response' = IF res.ok
                     THEN [res EXCEPT !.response =
                              [k \in HeaderNames |-> Merged(k, res.response[k], res.headers[k])]]
                     ELSE Own(TRUE, 500, NoHeaders)
    /\ UNCHANGED <<request, part, func, given, ran, awaiting, body, data, by, got, res>>

MiddlewareNext ==
    \/ HandleChain \/ CallNext
    \/ UserMiddleware \/ StandardMiddleware \/ CorsMiddleware
    \/ CallDefault \/ CallHandler
    \/ SetHeaders \/ Finish

\* The state of a request goes with it.
Leave ==
    /\ stage = "done"
    /\ stage' = "idle"
    /\ whole' = Leaf("standard", 1) /\ part' = Leaf("standard", 1)
    /\ func' = Handler /\ given' = Handler
    /\ ran' = <<>> /\ awaiting' = <<>>
    /\ asked' = [method |-> "GET", origin |-> NoOrigin, wants |-> {}, length |-> Unknown, body |-> "none"]
    /\ body' = "none"
    /\ data' = [by |-> Nobody, fits |-> FALSE]
    /\ by' = "nobody" /\ got' = Nobody
    /\ res' = NoRes /\ response' = NoRes

-----------------------------------------------------------------------------
(* Properties *)

Functions  == Seq([chain : Seq(Middlewares), at : Nat])
HeaderType == [HeaderNames -> Seq(SUBSET Items)]
ResType    == [ok : BOOLEAN, status : {0, 200, 403, 405, 413, 500},
               response : HeaderType, headers : HeaderType]

MiddlewareOK ==
    /\ stage \in {"idle", "handle", "call", "back", "done"}
    /\ whole \in Middlewares /\ part \in Middlewares
    /\ func \in Functions /\ given \in Functions
    /\ ran \in Seq([number : Nat, read : BOOLEAN, set : {"no", "fits", "other"},
                    on : {"next", "default", "none"}])
    /\ awaiting \in Seq(Middlewares)
    /\ asked \in RequestType
    /\ body \in {"none", "sent", "broken"}
    /\ data \in [by : Nat, fits : BOOLEAN]
    /\ by \in {"nobody", "middleware", "cors", "size", "body", "handler"}
    /\ got \in Nat \cup {Client}
    /\ res \in ResType /\ response \in ResType

\* The middlewares of m; a chain may hold chains, and these hold no more.
Elements(m) == IF m.kind = "chain" THEN {m.chain[i] : i \in DOMAIN m.chain} ELSE {m}
Leaves(m)   == UNION {Elements(e) : e \in Elements(m)}

\* Whether l is the last middleware of a chain of the route.
EndsChain(l) ==
    \E c \in {whole} \cup Elements(whole) :
        c.kind = "chain" /\ c.chain # <<>> /\ l \in Elements(c.chain[Len(c.chain)])

\* Middlewares are called in the order in which they were chained and none is
\* called twice, whatever wrapper each of them passes on.  The handler, and the
\* checks of the body before it, come after all of them, and only when every CORS
\* middleware admits the request and its body is not too large.  Only the
\* last middleware of a chain can make what follows be skipped without an answer,
\* and only by passing NextWrapper::default() on.
HandlerLast ==
    /\ \A k \in DOMAIN ran : ran[k].number = k
    /\ by \in {"handler", "size", "body"} =>
          /\ {l.number : l \in Leaves(whole)} = 1..Len(ran)
          /\ \A l \in Leaves(whole) : l.kind = "cors" => Admits(l, asked)
    /\ by = "handler" => ~TooLarge
    /\ by = "nobody" /\ stage \in {"back", "done"} =>
          /\ ran # <<>> /\ ran[Len(ran)].on = "default"
          /\ \E l \in Leaves(whole) : l.number = Len(ran) /\ EndsChain(l)

ItemsOf(values) == UNION {values[i] : i \in DOMAIN values}

\* The CORS middlewares that were called.
Entered == {l \in Leaves(whole) : l.kind = "cors" /\ l.number <= Len(ran)}

\* An answer that is no error carries what the outermost CORS middleware that
\* was called sets, whoever gave the answer, united with what the handler set
\* and not in the place of it, and nothing that nobody set.  Of several values
\* that a handler gives one name, only a list's are all kept.
HeadersArrive ==
    stage = "done" /\ res.ok =>
        \A k \in HeaderNames :
            LET arrived == ItemsOf(response.response[k]) IN
            /\ \A m \in Entered :
                  (\A o \in Entered : m.number <= o.number)
                      => ItemsOf(CorsHeaders(m)[k]) \subseteq arrived
            /\ k = "vary" \/ Len(res.headers[k]) <= 1
                  => ItemsOf(res.headers[k]) \subseteq arrived
            /\ arrived \subseteq ItemsOf(res.headers[k])
                                     \cup UNION {ItemsOf(CorsHeaders(m)[k]) : m \in Entered}

\* The handler gets the body that the client sent when no middleware has taken
\* it, and otherwise what the last middleware that set data set, if its type can
\* be made of that under the request's content-type, and its default if not:
\* never the data of an earlier one.
DataFlows ==
    by = "handler" =>
        LET taken   == \E k \in DOMAIN ran : ran[k].read
            setters == {k \in DOMAIN ran : ran[k].set # "no"}
            last    == CHOOSE k \in setters : \A j \in setters : j <= k
        IN  got = IF asked.body = "sent" /\ ~taken THEN Client
                  ELSE IF setters # {} /\ ran[last].set = "fits" THEN ran[last].number
                  ELSE Nobody
=============================================================================
