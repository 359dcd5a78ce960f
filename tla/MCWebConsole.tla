----------------------------- MODULE MCWebConsole -----------------------------
(* Small instances of WebConsole for TLC. *)
EXTENDS WebConsole, TLC

CONSTANTS t1, t2, admin, ann

TwoTabs == {t1, t2}
TwoMails == {admin, ann}
Ann == {ann}
Admin == {admin}
===============================================================================
