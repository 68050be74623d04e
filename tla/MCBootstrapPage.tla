---------------------------- MODULE MCBootstrapPage ----------------------------
(* The widgets of small pages: layouts for the scroll spy.  Two have one height, *)
(* and one of them ends in a part shorter than the screen.  Besides the body, a  *)
(* tip's element is in a low box, a narrow one, or one that is scrolled itself.   *)
EXTENDS BootstrapPage

MCLayouts ==
  {[height |-> 14, offsets |-> <<1, 4, 8>>, targets |-> <<1, 2, 3>>],
   [height |-> 14, offsets |-> <<1, 5, 12>>, targets |-> <<1, 2, 3>>],
   [height |-> 16, offsets |-> <<1, 4, 9, 10>>, targets |-> <<1, 2, 4, 3>>],
   [height |-> 9, offsets |-> <<2>>, targets |-> <<1>>]}
MCBoxes ==
  {[left |-> 0, width |-> 12, height |-> 3, scroll |-> 0],
   [left |-> 4, width |-> 6, height |-> 10, scroll |-> 3],
   [left |-> 0, width |-> 12, height |-> 10, scroll |-> 5]}
=============================================================================
