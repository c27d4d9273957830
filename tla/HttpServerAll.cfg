SPECIFICATION BoundedSpec
CONSTANTS
    Segments <- AllSegments
    Placeholders <- Colons
    StaticPrefixed <- JustStatics
    Dotted <- Dots
    Paths <- SitePaths
    Listings <- Site
    RouteMethods <- GetAndPost
    MaxRoutes = 2
    Middlewares <- AllMiddlewares
    Items <- AllItems
    Origins <- TwoOrigins
    MaxSize = 1
    Lengths <- TwoLengths
    Unknown = Unknown
    HandlerHeaders <- SomeHeaders
    NoOrigin = NoOrigin
    Registrations <- SiteRoutes
INVARIANTS ServerTypeOK RoutesExactly PagesReachable HandlerLast HeadersArrive DataFlows
