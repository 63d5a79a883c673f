---------------------------- MODULE MCBlockFiles ----------------------------
(* Power losses while blocks arrive out of order; disk faults; no fault.   *)
EXTENDS BlockFiles
Power == {[faults |-> {"power"}, ahead |-> 2, height |-> 3],
          [faults |-> {"power", "batch"}, ahead |-> 1, height |-> 2]}
Disk  == {[faults |-> {"space", "coins", "inuse"}, ahead |-> 1, height |-> 2],
          [faults |-> {"write", "batch"}, ahead |-> 1, height |-> 2],
          [faults |-> {"write", "space"}, ahead |-> 1, height |-> 2]}
Upset == Power \cup Disk
Calm  == {[faults |-> {}, ahead |-> 1, height |-> 3]}
=============================================================================
