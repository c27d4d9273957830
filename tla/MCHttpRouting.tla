---------------------------- MODULE MCHttpRouting ----------------------------
(* Instances of HttpRouting for TLC. *)
EXTENDS HttpRouting

AllSegments == {"static", "statics", "favicon.ico", "index", "note", ":p", ".."}
StaticPaths == {<<"static">>, <<"static", "note">>}

File(name, kind, referenced) == [name |-> name, kind |-> kind, referenced |-> referenced]

Notes     == {File("index", "html", FALSE), File("note", "other", FALSE)}
JustNotes == {Notes}

JustStatics == {"static", "statics"}
Colons      == {":p"}
Dots        == {".."}
GetAndPost  == {"GET", "POST"}
=============================================================================
