----------------------------- MODULE MCWebScreens -----------------------------
(* A small instance of WebScreens for TLC. *)
EXTENDS WebScreens

ThreeNotices == {"n1", "n2", "n3"}
SeverityOf == [n \in ThreeNotices |-> IF n = "n2" THEN "warning" ELSE "critical"]
Third == {"n3"}
===============================================================================
