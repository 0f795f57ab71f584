------------------------------ MODULE MCShortener ------------------------------
(* Three requests of one link, which is perhaps there before the service      *)
(* starts, over a queue of two and two lifespans: three redirects; two with a *)
(* deletion or a query; one beside a creation and a deletion; one beside a    *)
(* deletion and a reader.                                                     *)
EXTENDS Shortener, TLC

CONSTANTS g1, g2, x1

Load(first, second, third) == g1 :> first @@ g2 :> second @@ x1 :> third

MCLoads == {Load("redirect", "redirect", "redirect"),
            Load("redirect", "redirect", "delete"),
            Load("redirect", "redirect", "analytics"),
            Load("redirect", "create", "delete"),
            Load("redirect", "delete", "read")}

MCColumns == <<"referrer">>

(* The second click is in the second, shorter interval of the window.         *)
MCAtOf    == [c \in Clicks |-> IF c = g2 THEN 6 ELSE 2]
MCWindow  == [start |-> 1, end |-> 7, width |-> 4]
MCValueOf == [column \in {"referrer"} |-> [c \in Clicks |-> IF c = g2 THEN "site" ELSE "direct"]]
===============================================================================
