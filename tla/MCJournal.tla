------------------------------ MODULE MCJournal ------------------------------
(***************************************************************************)
(* Instances of Journal for TLC.  The submissions are chosen so that every *)
(* conflict of append occurs: s1 and s2 are two ordinary events, rewrite   *)
(* reuses the id of s1 with other content, rekey reuses its key, restate   *)
(* redelivers it with another state, and overlap claims its projection row.*)
(***************************************************************************)
EXTENDS JournalInvariant, TLC

CONSTANTS t1, t2, p1, p2, i1, i2, i3, k1, k2, k3, bar1, bar2, scope

OneThreadEach == t1 :> p1 @@ t2 :> p2
TwoThreads == t1 :> p1 @@ t2 :> p1

Before == [scope |-> scope, body |-> "before"]
After == [scope |-> scope, body |-> "after"]
MCState == {Before, After}

First == [id |-> i1, received |-> 1, rows |-> {bar1}]
Second == [id |-> i2, received |-> 2, rows |-> {bar2}]

s1 == [event |-> First, key |-> k1, state |-> Before]
s2 == [event |-> Second, key |-> k2, state |-> After]
rewrite == [event |-> [First EXCEPT !.received = 2, !.rows = {}], key |-> k3, state |-> NoState]
rekey == [event |-> [Second EXCEPT !.id = i3, !.rows = {}], key |-> k1, state |-> NoState]
restate == [s1 EXCEPT !.state = After]
overlap == [event |-> [id |-> i3, received |-> 2, rows |-> {bar1}], key |-> k3, state |-> NoState]

AllSubmissions == {s1, s2, rewrite, rekey, restate, overlap}
TwoSubmissions == {s1, s2}

OldMaster == [id |-> "nse", content |-> "old"]
NewMaster == [id |-> "nse", content |-> "new"]
MCSnapshot == {OldMaster, NewMaster}
=============================================================================
