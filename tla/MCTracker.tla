------------------------------ MODULE MCTracker ------------------------------
(* A small instance of Tracker: two tabs, two pages to move between, and every *)
(* configuration of the site and the browser.  A silent tracker has one reason *)
(* to be, and a storage that works.                                            *)
EXTENDS Tracker

CONSTANTS t1, t2, page1, page2, tok1, tok2, name1

Sending == [autoTrack : BOOLEAN, trackHistory : BOOLEAN, suppressed : {FALSE},
            configured : {TRUE}, fetch : {TRUE}, storage : {"works", "fails"}]

MCOptions ==
    Sending \cup UNION {{[o EXCEPT !.suppressed = TRUE], [o EXCEPT !.configured = FALSE],
                         [o EXCEPT !.fetch = FALSE]} : o \in {p \in Sending : p.storage = "works"}}
=============================================================================
