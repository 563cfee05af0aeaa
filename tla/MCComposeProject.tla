-------------------------- MODULE MCComposeProject --------------------------
(* Instances of ComposeProject for TLC: a database prepared by one init     *)
(* service, migrated by another, a web server on it, and an optional        *)
(* exporter with an optional init chain of its own.  The migration is       *)
(* labelled optional too, which the web server depending on it overrules.  *)
EXTENDS ComposeProject

App == <<"chown", "db", "migrate", "web", "seed", "warm", "export">>
AppInit == {"chown", "migrate", "seed", "warm"}
AppOptional == {"migrate", "seed", "warm", "export"}
AppDepends ==
  [s \in ToSet(App) |->
     CASE s = "db" -> {"chown"} [] s = "migrate" -> {"db"}
       [] s = "web" -> {"migrate", "db"} [] s = "warm" -> {"seed"}
       [] s = "export" -> {"warm", "db"} [] OTHER -> {}]
\* The second document changes the web server and the first init service.
AppDefinition ==
  <<[s \in ToSet(App) |-> 1],
    [s \in ToSet(App) |-> IF s \in {"web", "chown"} THEN 2 ELSE 1]>>
ThreeGenerations == <<1, 2, 1>>
TwoGenerations == <<1, 2>>

\* The same app with the migration written before the service it runs on.
MigrateFirst == <<"migrate", "chown", "db", "web", "seed", "warm", "export">>
=============================================================================
