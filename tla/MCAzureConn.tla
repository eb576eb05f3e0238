---------------------------- MODULE MCAzureConn ----------------------------
(* Values of AzureConn's constants for TLC.                                *)
EXTENDS AzureConn

CONSTANTS hub, far

Names == {hub, far}
Lengths == [n \in Names |-> IF n = hub THEN 10 ELSE 128]
Bare(n) == [scheme |-> FALSE, name |-> n, port |-> FALSE, tail |-> ""]
Full == [host : {Bare(hub)}, sni : {Bare("")}, device : {39}, auth : {"x509"},
         secret : {"readable"}, strict : {FALSE}]

(* Every way to write a host; an SNI host of its own; the last device id   *)
(* whose PUBLISH has one length byte and the first that needs two; the     *)
(* last that fits CONNECT (39 characters), the first that does not, and    *)
(* one whose length byte has wrapped around; and what else can be wrong.   *)
Configs ==
  {[Bare(hub) EXCEPT !.scheme = s, !.name = n, !.port = p, !.tail = t] :
      s \in BOOLEAN, n \in {hub, ""}, p \in BOOLEAN, t \in {"", "/", "?", "#"}}
Some ==
  LET one == CHOOSE c \in Full : TRUE
  IN {[one EXCEPT !.host = f] : f \in Configs}
       \cup {[one EXCEPT !.sni = [f EXCEPT !.name = IF f.name = hub THEN far ELSE ""]] : f \in Configs}
       \cup {[one EXCEPT !.device = d] : d \in {0, 1, 32, 33, 40, 127}}
       \cup {[one EXCEPT !.host = Bare(far), !.device = 44]}
       \cup {[one EXCEPT !.secret = s] : s \in {"unreadable", "absent"}}
       \cup {[one EXCEPT !.auth = "sas", !.secret = s] : s \in {"readable", "unreadable", "absent"}}
       \cup {[one EXCEPT !.strict = TRUE]}
Good == {[c EXCEPT !.device = 20] : c \in Full}
=============================================================================
