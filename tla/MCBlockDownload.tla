-------------------------- MODULE MCBlockDownload --------------------------
(* A chain of two blocks and a fork of one block that proves invalid.     *)
EXTENDS BlockDownload
Tree == [a1 |-> "g", a2 |-> "a1", b1 |-> "g"]

(* What peers do: send full blocks of a fork, send compact blocks, run     *)
(* into the window, or keep a prompt peer from being served.               *)
Situations ==
  {[blocks |-> {"a1", "a2", "b1"}, bad |-> {"b1"}, prompt |-> {}, kinds |-> {"headers", "block"},
    transit |-> 2, connects |-> 2, messages |-> 2],
   [blocks |-> {"a1", "b1"}, bad |-> {"b1"}, prompt |-> {},
    kinds |-> {"headers", "cmpctblock", "blocktxn"}, transit |-> 1, connects |-> 2, messages |-> 2],
   [blocks |-> {"a1"}, bad |-> {}, prompt |-> {},
    kinds |-> {"headers", "cmpctblock", "blocktxn"}, transit |-> 1, connects |-> 2, messages |-> 3],
   [blocks |-> {"a1", "a2"}, bad |-> {}, prompt |-> {}, kinds |-> {"inv", "headers"},
    transit |-> 1, connects |-> 2, messages |-> 3],
   [blocks |-> {"a1", "a2"}, bad |-> {}, prompt |-> {"p"}, kinds |-> {"headers", "cmpctblock"},
    transit |-> 1, connects |-> 2, messages |-> 2]}
=============================================================================
