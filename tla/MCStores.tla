------------------------------ MODULE MCStores ------------------------------
(* Instances of Stores for TLC. *)
EXTENDS Stores

CONSTANT u1

Draft == <<"draft", "Open">>
Sent == <<"sent", "Sent">>

(* One filter for each condition, and two with several. *)
All == [type |-> Blank, user |-> Nil, step |-> Blank, state |-> Blank,
        finished |-> Nil, after |-> Nil, before |-> Nil]
MCFilters ==
  {All, [All EXCEPT !.type = "leave"], [All EXCEPT !.user = u1],
   [All EXCEPT !.user = Anonymous], [All EXCEPT !.step = "draft"],
   [All EXCEPT !.state = "Sent"], [All EXCEPT !.finished = TRUE],
   [All EXCEPT !.finished = FALSE], [All EXCEPT !.after = 2], [All EXCEPT !.before = 1],
   [All EXCEPT !.type = "leave", !.user = u1, !.finished = FALSE],
   [All EXCEPT !.after = 2, !.before = 2]}
MCInts == {-1, 1, 2, 127}

(* Two instances of different types and users; three that a client pages through; *)
(* an instance with two transitions, and one with a transition and its history.    *)
Scope == [users |-> {u1}, types |-> {"leave"}, positions |-> {Draft, Sent},
          filters |-> {All}, instances |-> 1, walks |-> FALSE, transitions |-> 0,
          histories |-> 0]
MCScopes ==
  {[Scope EXCEPT !.users = {Anonymous, u1}, !.types = {"leave", "order"},
                 !.filters = MCFilters, !.instances = 2],
   [Scope EXCEPT !.positions = {Draft}, !.instances = 3, !.walks = TRUE,
                 !.filters = {[All EXCEPT !.user = u1]}],
   [Scope EXCEPT !.transitions = 2],
   [Scope EXCEPT !.transitions = 1, !.histories = 1]}
=============================================================================
