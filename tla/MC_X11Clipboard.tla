--------------------------- MODULE MC_X11Clipboard ---------------------------
(* Small instances of X11Clipboard for TLC.                               *)
EXTENDS X11Clipboard, TLC

CONSTANTS c1, c2

MCCookies == {c1, c2}
MCCookies1 == {c1}
MCPeerOfferings == {<< "COMPOUND_TEXT", "UTF8_STRING" >>, << "image/png" >>}
MCPeerOfferings1 == {<< "UTF8_STRING" >>}
MCPeerAsks == {"TARGETS", "UTF8_STRING"}
MCAnnounceMasks == {{UNICODETEXT}}
MCAnnounceMasksWithEmpty == {{UNICODETEXT}, {}}
MCHostAsks == {UNICODETEXT, BITMAP}
MCHostAsksU == {UNICODETEXT}

=============================================================================
