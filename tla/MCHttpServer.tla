----------------------------- MODULE MCHttpServer -----------------------------
(* Instances of HttpServer for TLC. *)
EXTENDS HttpServer

AllSegments == {"a", ":p", "static", "statics", "..", "favicon.ico", "index", "about", "style",
                "code", "note", "icon"}

SitePaths == {<<>>, <<"a">>, <<":p">>, <<"..">>, <<":p", "a">>, <<"static">>, <<"statics">>,
              <<"index">>, <<"style">>, <<"static", "note">>}

File(name, kind, referenced) == [name |-> name, kind |-> kind, referenced |-> referenced]

Pages   == {File("index", "html", FALSE), File("about", "html", FALSE), File("style", "css", TRUE),
            File("code", "js", TRUE), File("note", "other", FALSE)}
Refused == {File("index", "html", FALSE), File("icon", "refused", FALSE)}

Site        == {Pages, Refused}
JustStatics == {"static", "statics"}
Colons      == {":p"}
Dots        == {".."}
GetAndPost  == {"GET", "POST"}

AllItems   == {"GET", "POST", "PUT", "here", "there", "*", "x"}
TwoOrigins == {"here", "there"}
TwoLengths == {1, 2}

Values(methods, origin, vary, custom) ==
    [allowMethods |-> methods, allowOrigin |-> origin, vary |-> vary, custom |-> custom]

SomeHeaders == {NoHeaders,
                Values(<<{"PUT"}>>, <<{"there"}>>, <<{"x"}, {"here"}>>, <<{"x"}>>),
                Values(<<{"PUT"}, {"GET"}>>, <<>>, <<{"x"}, {"x"}>>, <<>>)}

User(n)     == Leaf("user", n)
Strict(n)   == Cors(n, "here", {"POST"})
ReadOnly    == Cors(1, "*", {"GET"})
Anybody(n)  == Cors(n, "*", {"GET", "POST"})
Inner       == Chain(<<User(1), Strict(2)>>)
InnerEnd    == Chain(<<User(2), Leaf("standard", 3)>>)

Chains == {Chain(<<>>),
           Chain(<<Leaf("standard", 1), User(2)>>),
           Chain(<<User(1), User(2)>>),
           Chain(<<Anybody(1), User(2), Strict(3)>>),
           Chain(<<Inner, User(3)>>),
           Chain(<<Strict(1), InnerEnd>>)}

AllMiddlewares == Chains \cup UNION {Leaves(c) : c \in Chains} \cup {Standard, ReadOnly, User(1), Inner, InnerEnd}

\* Routes without a middleware, and one with each chain.
SiteRoutes == [method : {"GET"}, path : SitePaths, uses : {Standard}]
                  \cup [method : {"POST"}, path : {<<"a">>, <<"static">>}, uses : {Standard}]
                  \cup [method : {"POST"}, path : {<<"a">>}, uses : Chains \cup {User(1), ReadOnly}]

\* Bounds: a route with a middleware stands alone in the table, and only the
\* handlers of such tables get and give more than a plain request and answer.
Alone == (\E n \in DOMAIN uses : uses[n] # Standard) => Len(uses) = 1

Plain == Len(uses) > 1 => /\ asked \in {[method |-> m, origin |-> NoOrigin, wants |-> {},
                                        length |-> Unknown, body |-> "none"] : m \in GetAndPost}
                          /\ res \in {NoRes, Created(NoHeaders)}

BoundedSpec == ServerInit /\ [][ServerNext /\ Alone' /\ Plain']_svars
=============================================================================
