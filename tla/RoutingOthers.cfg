SPECIFICATION Spec
CONSTANTS
    Segments <- AllSegments
    Placeholders <- Colons
    StaticPrefixed <- JustStatics
    Dotted <- Dots
    Paths <- StaticPaths
    Listings <- JustNotes
    RouteMethods <- GetAndPost
    MaxRoutes = 0
INVARIANT OthersReachable
