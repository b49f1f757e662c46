---------------------------- MODULE MCSessionProxy ----------------------------
(* The default triggers ~~, ~b and ~f (src/config/model.rs) and two lines.     *)
EXTENDS SessionProxy

MCSnippet  == <<"~", "~">>
MCBookmark == <<"~", "b">>
MCBrowser  == <<"~", "f">>
MCReal     == <<"b">>
MCStale    == <<"f">>
================================================================================
