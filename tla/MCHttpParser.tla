---------------------------- MODULE MCHttpParser ----------------------------
(* HttpStream with an application that accepts everything, refuses a body, *)
(* asks for another protocol, or fails.                                    *)
EXTENDS HttpStream

Answering == {[AllOK EXCEPT !["headers_complete"] = r] : r \in 0..3}

Common == {Blank, CR, LF, ":", "H", "T", "P", "/", ".", "0", "1", "c", "on",
           "tent-length", "t", "ransfer-encoding", "hunked"}

Symbols ==
    [REQUEST |-> Common \cup {",", "?", "G", "ET", "nection", "u", "pgrade", "bad"},
     RESPONSE |-> Common \cup {"2"},
     BOTH |-> {CR, "H", "T", "G", "EAD"}, HEAD |-> {Blank, "/", LF}]

Longest == [REQUEST |-> 4, RESPONSE |-> 3, BOTH |-> 3]
=============================================================================
