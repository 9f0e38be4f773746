---------------------------- MODULE MCPostProcess ----------------------------
(* Two nodes, one processor each (proc 1 on node 0, proc 2 on node 1).   *)
(* Tasks 1 and 2 create the messages: meta tasks 3 and 4 sent from node 0 *)
(* to node 1, 5 from node 1 to node 0, 6 from an unprofiled creator       *)
(* (ProfUID 10), task 7 spawned remotely and task 8 spawned locally, and  *)
(* a meta task 9 of a non-message variant.  A message sent at true time  *)
(* T with latency L carries spawn = T + offset(creator node) and create = *)
(* T + L + offset(executing node): the clocks of the nodes are skewed by  *)
(* the offsets.  One memory instance and one channel copy.               *)
EXTENDS PostProcess

TR(c, s) == [spawn |-> None, create |-> c, ready |-> c, start |-> c, stop |-> s]

(* A message: spawned at sp on the creator's clock, created at cr on the *)
(* executor's, run for one unit.                                          *)
Msg(sp, cr) == [spawn |-> sp, create |-> cr, ready |-> cr, start |-> cr, stop |-> cr + 1]

MetaRow(u, m) == [uid |-> u, message |-> m]

MaxOf(S) == CHOOSE x \in S : \A y \in S : y <= x

Profile(off, L3, L4, L5) ==
    LET e1 == (1 :> TR(0, 1)) @@ (5 :> Msg(1 + off[1], 1 + L5 + off[0]))
                @@ (6 :> Msg(2 + off[1], 3 + off[0]))
                @@ (8 :> Msg(1 + off[0], 1 + off[0]))
                @@ (9 :> TR(2 + off[0], 3 + off[0]))
        e2 == (2 :> TR(0, 1)) @@ (3 :> Msg(1 + off[0], 1 + L3 + off[1]))
                @@ (4 :> Msg(2 + off[0], 2 + L4 + off[1]))
                @@ (7 :> Msg(3 + off[0], 4 + off[1]))
        ms == "m" :> (20 :> TR(1, 4))
        cs == "c" :> (21 :> TR(2, 5))
    IN  [node |-> (1 :> 0) @@ (2 :> 1),
         entries |-> (1 :> e1) @@ (2 :> e2),
         metaTasks |-> (1 :> <<MetaRow(5, TRUE), MetaRow(6, TRUE), MetaRow(9, FALSE)>>)
                       @@ (2 :> <<MetaRow(3, TRUE), MetaRow(4, TRUE)>>),
         messageTasks |-> (1 :> {8}) @@ (2 :> {7}),
         creator |-> (1 :> None) @@ (2 :> None) @@ (3 :> 1) @@ (4 :> 1) @@ (5 :> 2)
                     @@ (6 :> 10) @@ (7 :> 1) @@ (8 :> 1) @@ (9 :> 1),
         uidProc |-> [u \in 1..9 |-> IF u \in DOMAIN e1 THEN 1 ELSE 2],
         mems |-> ms, chans |-> cs,
         lastTime |-> MaxOf({e1[u].stop : u \in DOMAIN e1} \cup {e2[u].stop : u \in DOMAIN e2}
                            \cup {5}),
         offset |-> off,
         latency |-> (3 :> L3) @@ (4 :> L4) @@ (5 :> L5) @@ (6 :> 1) @@ (7 :> 1) @@ (8 :> 0)]

Offsets == {(0 :> 0) @@ (1 :> 0), (0 :> 2) @@ (1 :> 0), (0 :> 0) @@ (1 :> 2)}

MCProfiles == {Profile(off, L3, L4, L5) : off \in Offsets, L3, L4, L5 \in {0, 3}}

(* No window; windows that cut the end, the start, and both.             *)
MCWindows == {NoWindow, [start |-> None, stop |-> 3], [start |-> 2, stop |-> None],
              [start |-> 1, stop |-> 4]}

(* Real windows: one that ends before the last messages run, and one     *)
(* that cuts only the first time unit and drops no message.              *)
MCTrimWindows == {[start |-> None, stop |-> 3], [start |-> 1, stop |-> None]}

(* Task variants first, then meta variants (fixed-colour or not).        *)
Kinds(v, ms) == [j \in 1..v |-> [meta |-> FALSE, id |-> 0]]
                   \o [j \in DOMAIN ms |-> [meta |-> TRUE, id |-> ms[j]]]

MCKindLists == {Kinds(v, ms) : v \in {1, 2, 3, 4, 7, 8, 15, 16},
                               ms \in {<<>>, <<1, 4>>, <<2, 6, 7, 8, 9>>}}
                 \ {Kinds(1, <<>>)}

=============================================================================
